---- MODULE Spec2Model ----
(***************************************************************************)
(* Max desktop agent: the planning / validation / execution pipeline.      *)
(*                                                                         *)
(*   Spec          Orchestrator._main_loop with the GUI thread (stop, the  *)
(*                 confirmation dialog, the safe-mode box) and the         *)
(*                 handlers; plans come from self.ai.plan.                 *)
(*   SpecDispatch  ActionDispatcher.execute_plan on an arbitrary plan and  *)
(*                 skip set, handler outcomes chosen at each invocation.   *)
(*   SpecClassify  SafetyValidator.classify_action on one drawn action.    *)
(*   SpecValidate  SafetyValidator.validate_plan on one drawn plan.        *)
(*   SpecFallback  a sequence of FallbackProvider.plan calls.              *)
(*   SpecConfirm   request_confirmation calls against the GUI thread.      *)
(*   SpecSchema    validate_action_plan on one drawn JSON value.           *)
(*   SpecSanitize  sanitize_plan applied twice to one drawn plan.          *)
(*   SpecCliLive   the loop without a window, the loop head fair.          *)
(*   SpecCliGate   the loop without a window, its own steps fair.          *)
(*   SpecThreads   Start and Stop clicks, one thread per Start click.      *)
(*   SpecProvider  one plan() call of OllamaProvider or OpenRouterClient.  *)
(*   SpecRules     parse_simple_command on one drawn command, its plan   *)
(*                 given to SafetyValidator.validate_plan.                 *)
(*                                                                         *)
(* Python indices are 0-based: action index i is actions[i + 1] here.      *)
(* A Python dict is a function on a set of string keys; dict.get is Get.   *)
(***************************************************************************)
EXTENDS Integers, Sequences, FiniteSets, TLC

VARIABLES
    plan,           \* the plan dict of the current invocation
    skip_indices,   \* execute_plan: the skip_indices argument
    results,        \* execute_plan: the local list `results`
    d_i,            \* execute_plan: loop variable i of enumerate(actions)
    d_pc,           \* execute_plan: "idle" | "loop" | "break" | "done"
    calls,          \* handler invocations in call order: [index, outcome]
    last_results,   \* ActionDispatcher._results
    cwd,            \* environment: the process working directory (path parts)
    url_strip,      \* environment: urlparse strips leading blanks (newer Pythons)
    safe_mode,      \* SafetyValidator.safe_mode
    action_in,      \* classify_action: the action argument
    classification, \* classify_action: the value returned, "none" before the call
    validation,     \* validate_plan: the dict returned, NoValidation before the call
    f_primary,      \* FallbackProvider._primary (the backend's name)
    f_secondary,    \* FallbackProvider._secondary
    failures,       \* FallbackProvider._consecutive_primary_failures
    f_pc,           \* FallbackProvider.plan: "idle" | "primary" | "secondary" | "done"
    f_calls,        \* backend plan() calls of the current call: [backend, result]
    f_result,       \* the value FallbackProvider.plan returned
    f_count,        \* FallbackProvider.plan calls started so far
    event,          \* MaxMainWindow._confirmation_event is set
    conf_result,    \* MaxMainWindow._confirmation_result: "None" | "True" | "False"
    rc_pc,          \* request_confirmation: position of the pipeline thread
    rc_req,         \* number of the current request_confirmation call
    rc_timed_out,   \* the wait of the current call ended by timeout
    rc_at_timeout,  \* _confirmation_result when that wait timed out
    rc_return,      \* the value the current call returned
    signals,        \* queued sig_request_confirmation emissions (request numbers)
    dialogs,        \* open dialogs, newest last: [req, stage]
    p_pc,           \* Orchestrator._main_loop: position of the pipeline thread
    status,         \* the status last passed to _set_status
    running,        \* Orchestrator._running
    gui,            \* Orchestrator.gui is a window (FALSE: None, CLI fallback)
    approved,       \* _main_loop local `approved`: "unset" | "yes" | "no"
    saved,          \* save_conversation calls of this loop iteration:
                    \* [utt, plan, result, success]
    utt,            \* utterances for which a command text was obtained
    command,        \* _main_loop local `command`, as its words; <<>> when unset
    ai_calls,       \* the commands handed to self.ai.plan for this utterance
    raised,         \* the except clause of _main_loop ran in this iteration
    sc_in,          \* validate_action_plan: the value json.loads returned
    sc_out,         \* validate_action_plan: the value returned, NotCalled before
    sc_ok,          \* validate_plan_schema on the same value: "none" before the
                    \* call, then "accepted" | "rejected" | "raised"
    sn_in,          \* sanitize_plan: the plan argument of the first call
    sn_once,        \* sanitize_plan(sn_in), NoPlan before the call
    sn_twice,       \* sanitize_plan(sn_once), NoPlan before the call
    threads,        \* position of each thread started by a Start click, in
                    \* the order of the clicks
    start_enabled,  \* MaxMainWindow.start_btn is enabled (stop_btn is not)
    pr_kind,        \* the provider whose plan() runs: "ollama" | "openrouter"
    pr_attempt,     \* plan(): loop variable attempt
    pr_pc,          \* plan(): "idle" | "attempt" | "waiting" | "done"
    pr_inflight,    \* backend requests posted and not yet answered
    pr_log,         \* attempts of this call: [attempt, outcome, delay], delay
                    \* the sleep after the attempt in tenths of a second
    pr_result       \* the value plan() returned

dvars == <<skip_indices, results, d_i, d_pc, calls, last_results>>
envvars == <<cwd, url_strip>>
svars == <<safe_mode, action_in, classification, validation>>
fvars == <<f_primary, f_secondary, failures, f_pc, f_calls, f_result, f_count>>
cvars == <<event, conf_result, rc_pc, rc_req, rc_timed_out, rc_at_timeout, rc_return,
           signals, dialogs>>
pvars == <<p_pc, status, running, gui, approved, saved, utt, command, ai_calls, raised>>
scvars == <<sc_in, sc_out, sc_ok>>
snvars == <<sn_in, sn_once, sn_twice>>
tvars == <<threads, start_enabled>>
prvars == <<pr_kind, pr_attempt, pr_pc, pr_inflight, pr_log, pr_result>>
aivars == <<scvars, snvars, tvars, prvars>>
nondvars == <<envvars, aivars, svars, fvars, cvars, pvars>>
vars == <<plan, dvars, envvars, aivars, svars, fvars, cvars, pvars>>

\* Longest plan the model builds.
MaxActions == 3
\* Utterances with a command text in one run of the pipeline.
MaxUtterances == 2
\* Longest path string (in components) the classifier inputs contain.
MaxPathLen == 2
\* FallbackProvider.plan calls in one run.
MaxPlanCalls == 4
\* request_confirmation calls in one run.
MaxRequests == 2
\* Longest actions list of the values handed to validate_action_plan.
MaxRawActions == 2
\* Clicks on the Start button in one run.
MaxStarts == 2

----------------------------------------------------------------------------
(* Python helpers *)

\* dict.get(key, default)
Get(d, k, default) == IF k \in DOMAIN d THEN d[k] ELSE default

NoParams == <<>>

----------------------------------------------------------------------------
(* config.py *)

DANGEROUS_ACTIONS ==
    {"file_delete", "file_move", "install_software", "system_volume",
     "system_brightness", "press_key"}

SAFE_ACTIONS ==
    {"open_app", "close_app", "open_browser", "navigate", "click", "type_text",
     "move_mouse", "file_create", "summarize_screen", "read_screen", "search_web",
     "wait"}

ALL_ACTION_TYPES == SAFE_ACTIONS \cup DANGEROUS_ACTIONS

\* A path is a sequence of components below the drive root.
PROJECT_ROOT == <<"Max">>

PROTECTED_PATHS ==
    <<PROJECT_ROOT, <<"Windows">>, <<"Program Files">>, <<"Program Files (x86)">>>>

----------------------------------------------------------------------------
(* core/safety/validator.py *)

\* str.lower() on the path components, key names and URL schemes of the model.
Lower(w) ==
    CASE w = "Boot" -> "boot"
      [] w = "Windows" -> "windows"
      [] w = "Max" -> "max"
      [] w = "JavaScript" -> "javascript"
      [] w = "FTP" -> "ftp"
      [] w = "Alt+F4" -> "alt+f4"
      [] OTHER -> w

\* Path.resolve() on the parts: ".." removes the component before it (the
\* root has no parent).
RECURSIVE Normalize(_, _)
Normalize(parts, acc) ==
    IF parts = <<>> THEN acc
    ELSE IF Head(parts) = ".."
         THEN Normalize(Tail(parts),
                        IF acc = <<>> THEN acc ELSE SubSeq(acc, 1, Len(acc) - 1))
         ELSE Normalize(Tail(parts), Append(acc, Head(parts)))

\* Path(path_str).resolve(): a relative path is taken from the working
\* directory. A path string is [isstr, abs, parts].
Resolve(p) == Normalize((IF p.abs THEN <<>> ELSE cwd) \o p.parts, <<>>)

\* path.relative_to(protected) does not raise: protected is path or an ancestor.
IsRelativeTo(path, protected) ==
    /\ Len(protected) <= Len(path)
    /\ SubSeq(path, 1, Len(protected)) = protected

InsideProtected(path) ==
    \E n \in 1..Len(PROTECTED_PATHS) : IsRelativeTo(path, PROTECTED_PATHS[n])

suspicious_dirs == {"system32", "syswow64", "boot", "recovery"}

\* _check_path_safety(path_str); a value that is no string makes Path() raise.
CheckPathSafety(p) ==
    IF ~p.isstr THEN "blocked"
    ELSE IF InsideProtected(Resolve(p)) THEN "blocked"
    ELSE IF \E n \in 1..Len(Resolve(p)) : Lower(Resolve(p)[n]) \in suspicious_dirs
         THEN "dangerous"
    ELSE "safe"

\* A URL string is [ws, scheme, rest]: optional leading blanks, the scheme as
\* written ("" when the string has no scheme), and what follows the scheme
\* ("//" or "///" for a hierarchical URL, "" otherwise).
\* re.match(pattern, url.lower().strip()) for a pattern of BLOCKED_URL_PATTERNS.
MatchesBlockedPattern(u) ==
    \/ Lower(u.scheme) = "javascript"
    \/ Lower(u.scheme) = "data"
    \/ Lower(u.scheme) = "file" /\ u.rest = "///"

\* urlparse(url).scheme: lower-cased; a string with leading blanks has no
\* scheme unless urlparse strips them.
ParsedScheme(u) ==
    IF u.ws /\ ~url_strip THEN "" ELSE Lower(u.scheme)

\* _check_url_safety(url)
CheckUrlSafety(u) ==
    IF MatchesBlockedPattern(u) THEN "blocked"
    ELSE IF ParsedScheme(u) = "" THEN "safe"
    ELSE IF ParsedScheme(u) \notin {"http", "https"} THEN "blocked"
    ELSE "safe"

BLOCKED_KEY_COMBOS == {}
DANGEROUS_KEY_COMBOS == {"alt+f4", "ctrl+alt+delete", "ctrl+shift+delete", "win+l"}

\* A key combination is [text, spaced]: its text without blanks, and whether
\* it was written with blanks around "+". lower().replace(" ", "") gives:
NormalizedKey(k) == Lower(k.text)

\* _check_key_safety(key_combo)
CheckKeySafety(k) ==
    IF NormalizedKey(k) \in BLOCKED_KEY_COMBOS THEN "blocked"
    ELSE IF NormalizedKey(k) \in DANGEROUS_KEY_COMBOS THEN "dangerous"
    ELSE "safe"

PathKeys == <<"path", "source", "destination">>

\* The loop over ("path", "source", "destination"): the first check that is
\* not "safe" is returned; "safe" when the loop falls through.
PathLoop(params) ==
    LET hit == {n \in 1..Len(PathKeys) :
                    /\ PathKeys[n] \in DOMAIN params
                    /\ CheckPathSafety(params[PathKeys[n]]) # "safe"}
    IN IF hit = {} THEN "safe"
       ELSE CheckPathSafety(params[PathKeys[CHOOSE n \in hit : \A m \in hit : n <= m]])

\* classify_action(action)
ClassifyAction(action) ==
    LET action_type == Get(action, "type", "")
        params == Get(action, "parameters", NoParams)
    IN IF action_type \notin ALL_ACTION_TYPES THEN "blocked"
       ELSE IF PathLoop(params) # "safe" THEN PathLoop(params)
       ELSE IF "url" \in DOMAIN params /\ CheckUrlSafety(params["url"]) = "blocked"
            THEN "blocked"
       ELSE IF /\ action_type = "press_key"
               /\ "key" \in DOMAIN params
               /\ CheckKeySafety(params["key"]) # "safe"
            THEN CheckKeySafety(params["key"])
       ELSE IF action_type \in DANGEROUS_ACTIONS THEN "dangerous"
       ELSE "safe"

\* Mutant: the verdict does not start from the plan's requires_confirmation.
InitialVerdictUnconfirmed(p) ==
    [approved |-> TRUE,
     needs_confirmation |-> FALSE,
     blocked_actions |-> <<>>, dangerous_actions |-> <<>>, safe_actions |-> <<>>,
     reasons |-> <<>>]

\* The result dict validate_plan starts from.
InitialVerdict(p) ==
    [approved |-> TRUE,
     needs_confirmation |-> Get(p, "requires_confirmation", FALSE),
     blocked_actions |-> <<>>, dangerous_actions |-> <<>>, safe_actions |-> <<>>,
     reasons |-> <<>>]

\* Loop body for a blocked action at index i.
OnBlocked(res, i) ==
    [res EXCEPT !.blocked_actions = Append(@, i),
                !.reasons = Append(@, [index |-> i, kind |-> "BLOCKED"])]

\* Mutant: a dangerous action is listed but does not raise needs_confirmation.
OnDangerousNoConfirm(res, i) ==
    [res EXCEPT !.dangerous_actions = Append(@, i),
                !.reasons = Append(@, [index |-> i, kind |-> "confirm"])]

\* Loop body for a dangerous action at index i.
OnDangerous(res, i) ==
    [res EXCEPT !.dangerous_actions = Append(@, i),
                !.needs_confirmation = TRUE,
                !.reasons = Append(@, [index |-> i, kind |-> "confirm"])]

\* Mutant: a safe action gets a reason as well.
OnSafeWithReason(res, i) ==
    [res EXCEPT !.safe_actions = Append(@, i),
                !.reasons = Append(@, [index |-> i, kind |-> "confirm"])]

\* Loop body for a safe action at index i.
OnSafe(res, i) == [res EXCEPT !.safe_actions = Append(@, i)]

\* The loop of validate_plan over enumerate(actions), from index i on.
RECURSIVE ValidateLoop(_, _, _)
ValidateLoop(actions, i, res) ==
    IF i >= Len(actions) THEN res
    ELSE LET c == ClassifyAction(actions[i + 1])
         IN ValidateLoop(actions, i + 1,
                         IF c = "blocked" THEN OnBlocked(res, i)
                         ELSE IF c = "dangerous" THEN OnDangerous(res, i)
                         ELSE OnSafe(res, i))

\* Mutant: blocked actions do not withdraw the approval.
BlockedRuleMissing(res) == res

\* "If any actions are blocked, the whole plan is blocked".
BlockedRule(res) ==
    IF res.blocked_actions # <<>> THEN [res EXCEPT !.approved = FALSE] ELSE res

\* Mutant: with safe mode off no confirmation is asked for.
SafeModeRuleOffLifts(res, sm) ==
    IF sm /\ res.dangerous_actions # <<>>
    THEN [res EXCEPT !.needs_confirmation = TRUE]
    ELSE IF ~sm THEN [res EXCEPT !.needs_confirmation = FALSE]
    ELSE res

\* "In safe mode, dangerous actions always need confirmation".
SafeModeRule(res, sm) ==
    IF sm /\ res.dangerous_actions # <<>>
    THEN [res EXCEPT !.needs_confirmation = TRUE] ELSE res

\* validate_plan(plan)
ValidatePlan(p, sm) ==
    SafeModeRule(BlockedRule(ValidateLoop(Get(p, "actions", <<>>), 0, InitialVerdict(p))), sm)

NoValidation == [approved |-> FALSE, needs_confirmation |-> FALSE, called |-> FALSE]
NoAction == [type |-> "none"]

----------------------------------------------------------------------------
(* core/ai/provider_factory.py *)

\* Python None, where a plan is expected.
NoPlan == [task_type |-> "none", requires_confirmation |-> FALSE, actions |-> <<>>]

\* The plans a backend returns in the fallback runs.
BackendPlans ==
    {[task_type |-> "single_step", requires_confirmation |-> FALSE,
      actions |-> <<[type |-> "open_app", parameters |-> NoParams]>>],
     [task_type |-> "single_step", requires_confirmation |-> TRUE,
      actions |-> <<[type |-> "wait", parameters |-> NoParams]>>]}

\* Mutant: a primary failure returns None without trying the secondary.
AfterPrimaryNoFallback(r) ==
    IF r # NoPlan
    THEN /\ failures' = 0
         /\ f_result' = r
         /\ f_pc' = "done"
    ELSE /\ failures' = failures + 1
         /\ f_result' = NoPlan
         /\ f_pc' = "done"

\* FallbackProvider.plan after the primary returned r: return it, or count the
\* failure and go on to the secondary.
AfterPrimary(r) ==
    IF r # NoPlan
    THEN /\ failures' = 0
         /\ f_result' = r
         /\ f_pc' = "done"
    ELSE /\ failures' = failures + 1
         /\ f_result' = f_result
         /\ f_pc' = "secondary"

\* self._failure_threshold
failure_threshold == 2

\* Mutant: at the failure threshold the next call swaps primary and secondary.
FallbackPlanSwapping ==
    /\ f_pc \in {"idle", "done"}
    /\ f_count < MaxPlanCalls
    /\ f_count' = f_count + 1
    /\ f_pc' = "primary"
    /\ f_calls' = <<>>
    /\ f_result' = NoPlan
    /\ f_primary' = IF failures >= failure_threshold THEN f_secondary ELSE f_primary
    /\ f_secondary' = IF failures >= failure_threshold THEN f_primary ELSE f_secondary
    /\ UNCHANGED <<plan, dvars, envvars, aivars, svars, cvars, pvars, failures>>

\* A call of FallbackProvider.plan starts.
FallbackPlan ==
    /\ f_pc \in {"idle", "done"}
    /\ f_count < MaxPlanCalls
    /\ f_count' = f_count + 1
    /\ f_pc' = "primary"
    /\ f_calls' = <<>>
    /\ f_result' = NoPlan
    /\ UNCHANGED <<plan, dvars, envvars, aivars, svars, cvars, pvars, f_primary, f_secondary, failures>>

\* result = self._primary.plan(...), and the branch on it.
FallbackPrimary ==
    /\ f_pc = "primary"
    /\ \E r \in BackendPlans \cup {NoPlan} :
          /\ f_calls' = Append(f_calls, [backend |-> f_primary, result |-> r])
          /\ AfterPrimary(r)
    /\ UNCHANGED <<plan, dvars, envvars, aivars, svars, cvars, pvars, f_primary, f_secondary, f_count>>

\* result = self._secondary.plan(...); it is returned, None or not.
FallbackSecondary ==
    /\ f_pc = "secondary"
    /\ \E r \in BackendPlans \cup {NoPlan} :
          /\ f_calls' = Append(f_calls, [backend |-> f_secondary, result |-> r])
          /\ f_result' = r
    /\ f_pc' = "done"
    /\ UNCHANGED <<plan, dvars, envvars, aivars, svars, cvars, pvars, f_primary, f_secondary, failures,
                   f_count>>

\* create_llm_provider in "auto" mode: local is primary when the probe of the
\* local backend succeeds, else cloud is.
FallbackCreated ==
    /\ \E reachable \in BOOLEAN :
          /\ f_primary = IF reachable THEN "local" ELSE "cloud"
          /\ f_secondary = IF reachable THEN "cloud" ELSE "local"
    /\ failures = 0
    /\ f_pc = "idle"
    /\ f_calls = <<>>
    /\ f_result = NoPlan
    /\ f_count = 0

----------------------------------------------------------------------------
(* core/ai/schema.py *)

\* A value json.loads can return where a mapping is expected: a dict with its
\* items, or something that is no dict.
JDict(f) == [isdict |-> TRUE, fields |-> f]
NotDict == [isdict |-> FALSE, fields |-> <<>>]

\* A value where a list is expected: a list with its elements, or no list.
JList(items) == [islist |-> TRUE, items |-> items]
NotList == [islist |-> FALSE, items |-> <<>>]

\* A JSON array where a string is expected: unhashable, so a membership test
\* of it in a set raises TypeError.
Unhashable == "[]"

\* validate_action_plan raised (TypeError) instead of returning.
Raised == [task_type |-> "raised", requires_confirmation |-> FALSE, actions |-> <<>>]

\* validate_action_plan was not called yet.
NotCalled == [task_type |-> "not called", requires_confirmation |-> FALSE, actions |-> <<>>]

valid_task_types == {"single_step", "multi_step", "clarify"}

\* "multi_step" if num > 1 else "single_step"
TaskTypeFor(num) == IF num > 1 THEN "multi_step" ELSE "single_step"

\* Mutant: the task type assigned to a plan without one ignores the count.
MissingTaskTypeSingle(f) ==
    IF "actions" \in DOMAIN f /\ f["actions"].islist
    THEN [ok |-> TRUE,
          fields |-> [k \in DOMAIN f \cup {"task_type"} |->
                        IF k = "task_type" THEN "single_step" ELSE f[k]]]
    ELSE [ok |-> FALSE, fields |-> f]

\* Lines 54-61: a missing task_type is assigned from the number of actions
\* when actions is a list; otherwise the plan is rejected.
MissingTaskType(f) ==
    IF "actions" \in DOMAIN f /\ f["actions"].islist
    THEN [ok |-> TRUE,
          fields |-> [k \in DOMAIN f \cup {"task_type"} |->
                        IF k = "task_type"
                        THEN TaskTypeFor(Len(f["actions"].items))
                        ELSE f[k]]]
    ELSE [ok |-> FALSE, fields |-> f]

\* Lines 67-72: a task_type outside valid_task_types is replaced.
CorrectTaskType(f) ==
    IF f["task_type"] \in valid_task_types
    THEN f
    ELSE [f EXCEPT !["task_type"] =
            TaskTypeFor(IF f["actions"].islist THEN Len(f["actions"].items) ELSE 1)]

\* Lines 94-96: an action without parameters gets an empty dict.
WithParameters(a) ==
    IF "parameters" \in DOMAIN a.fields
    THEN a
    ELSE JDict([k \in DOMAIN a.fields \cup {"parameters"} |->
                  IF k = "parameters" THEN JDict(<<>>) ELSE a.fields[k]])

\* Lines 84-99: the loop over the actions. st is "ok" when every action
\* passed, "none" at the first action that is rejected, "raise" when the type
\* of an action is unhashable; items are the actions as the loop leaves them.
RECURSIVE CheckActions(_, _, _)
CheckActions(items, n, acc) ==
    IF n > Len(items) THEN [st |-> "ok", items |-> acc]
    ELSE LET action == items[n] IN
         IF ~action.isdict THEN [st |-> "none", items |-> acc]
         ELSE IF "type" \notin DOMAIN action.fields THEN [st |-> "none", items |-> acc]
         ELSE IF action.fields["type"] = Unhashable THEN [st |-> "raise", items |-> acc]
         ELSE IF action.fields["type"] \notin ALL_ACTION_TYPES
              THEN [st |-> "none", items |-> acc]
         ELSE IF ~WithParameters(action).fields["parameters"].isdict
              THEN [st |-> "none", items |-> acc]
         ELSE CheckActions(items, n + 1, Append(acc, WithParameters(action)))

\* Lines 102-107: requires_confirmation, when missing, is whether any action
\* has a type of DANGEROUS_ACTIONS.
WithRequiresConfirmation(f) ==
    IF "requires_confirmation" \in DOMAIN f
    THEN f
    ELSE [k \in DOMAIN f \cup {"requires_confirmation"} |->
            IF k = "requires_confirmation"
            THEN \E n \in 1..Len(f["actions"].items) :
                    f["actions"].items[n].fields["type"] \in DANGEROUS_ACTIONS
            ELSE f[k]]

\* Lines 62-110, on the fields f of a plan that has a task_type.
ValidateFields(f) ==
    IF "actions" \notin DOMAIN f THEN NoPlan
    ELSE IF f["task_type"] = Unhashable THEN Raised
    ELSE LET g == CorrectTaskType(f) IN
         IF ~g["actions"].islist THEN NoPlan
         ELSE IF Len(g["actions"].items) = 0 THEN NoPlan
         ELSE LET c == CheckActions(g["actions"].items, 1, <<>>) IN
              IF c.st = "none" THEN NoPlan
              ELSE IF c.st = "raise" THEN Raised
              ELSE JDict(WithRequiresConfirmation(
                            [g EXCEPT !["actions"] = JList(c.items)]))

\* validate_action_plan from line 48 on: p is the value json.loads returned.
\* The result is the plan, NoPlan for None, or Raised.
ValidateActionPlan(p) ==
    IF ~p.isdict THEN NoPlan
    ELSE IF "task_type" \in DOMAIN p.fields THEN ValidateFields(p.fields)
    ELSE LET m == MissingTaskType(p.fields) IN
         IF m.ok THEN ValidateFields(m.fields) ELSE NoPlan

(* core/ai/plan_validator.py *)

ALLOWED_ACTIONS ==
    {"open_app", "close_app", "open_browser", "navigate", "click", "type_text",
     "press_key", "move_mouse", "file_create", "file_delete", "file_move",
     "install_software", "system_volume", "system_brightness", "system_sleep",
     "system_lock", "system_shutdown", "system_restart", "system_wifi",
     "system_bluetooth", "system_screensaver", "system_mute", "system_unmute",
     "summarize_screen", "read_screen", "search_web", "wait"}

\* The loop of validate_plan_schema over the actions: the first action that
\* fails a test decides; the membership test of an unhashable type in the set
\* ALLOWED_ACTIONS raises TypeError.
RECURSIVE SchemaActions(_, _)
SchemaActions(items, n) ==
    IF n > Len(items) THEN "accepted"
    ELSE LET action == items[n] IN
         IF ~action.isdict THEN "rejected"
         ELSE IF "type" \notin DOMAIN action.fields THEN "rejected"
         ELSE IF action.fields["type"] = Unhashable THEN "raised"
         ELSE IF action.fields["type"] \notin ALLOWED_ACTIONS THEN "rejected"
         ELSE IF "parameters" \notin DOMAIN action.fields THEN "rejected"
         ELSE IF ~action.fields["parameters"].isdict THEN "rejected"
         ELSE SchemaActions(items, n + 1)

\* validate_plan_schema(plan)[0], or "raised"
validate_plan_schema(p) ==
    IF ~p.isdict THEN "rejected"
    ELSE IF "task_type" \notin DOMAIN p.fields THEN "rejected"
    ELSE IF "actions" \notin DOMAIN p.fields THEN "rejected"
    ELSE IF p.fields["task_type"] \notin valid_task_types THEN "rejected"
    ELSE IF ~p.fields["actions"].islist THEN "rejected"
    ELSE IF p.fields["actions"].items = <<>> THEN "rejected"
    ELSE SchemaActions(p.fields["actions"].items, 1)

\* A string as the sequence of its characters.
EmptyStr == <<>>

\* The characters looked for in package_id; "backquote" stands for the
\* backquote character.
ShellMetacharacters == {";", "|", "&", ">", "<", "backquote"}

\* any(char in pkg_id for char in [...])
HasMetacharacter(str) == \E n \in 1..Len(str) : str[n] \in ShellMetacharacters

\* path in ["/", "C:\\", "C:"]
RootPaths == {"/", "C:\\", "C:"}

\* d with d[k] = v, the key added when it is absent.
SetItem(d, k, v) == [x \in DOMAIN d \cup {k} |-> IF x = k THEN v ELSE d[x]]

\* The string without its first shell metacharacter.
RECURSIVE WithoutFirstMetacharacter(_)
WithoutFirstMetacharacter(str) ==
    IF str = <<>> THEN <<>>
    ELSE IF Head(str) \in ShellMetacharacters THEN Tail(str)
    ELSE <<Head(str)>> \o WithoutFirstMetacharacter(Tail(str))

\* Mutant: a suspicious package_id loses its first metacharacter only.
SanitizeStripsOne(action_type, params) ==
    IF action_type = "file_delete"
          /\ (Get(params, "path", "") = "" \/ Get(params, "path", "") \in RootPaths)
    THEN <<>>
    ELSE IF action_type = "install_software"
          /\ HasMetacharacter(Get(params, "package_id", EmptyStr))
    THEN SetItem(params, "package_id", WithoutFirstMetacharacter(params["package_id"]))
    ELSE IF action_type \in {"system_shutdown", "system_restart"}
          /\ Get(params, "delay", 60) > 3600
    THEN SetItem(params, "delay", 3600)
    ELSE params

\* sanitize_action_parameters: an empty or root path of a file_delete empties
\* the parameters, a package_id with a shell metacharacter becomes "", a
\* shutdown or restart delay above 3600 becomes 3600.
sanitize_action_parameters(action_type, params) ==
    IF action_type = "file_delete"
          /\ (Get(params, "path", "") = "" \/ Get(params, "path", "") \in RootPaths)
    THEN <<>>
    ELSE IF action_type = "install_software"
          /\ HasMetacharacter(Get(params, "package_id", EmptyStr))
    THEN SetItem(params, "package_id", EmptyStr)
    ELSE IF action_type \in {"system_shutdown", "system_restart"}
          /\ Get(params, "delay", 60) > 3600
    THEN SetItem(params, "delay", 3600)
    ELSE params

\* PlanValidator.sanitize_plan: a copy of the plan whose actions are copies
\* with sanitized parameters.
sanitize_plan(p) ==
    [p EXCEPT !.actions =
        [n \in 1..Len(p.actions) |->
            [p.actions[n] EXCEPT !.parameters =
                sanitize_action_parameters(p.actions[n].type, p.actions[n].parameters)]]]

\* sanitize_plan was not called.
SanitizeIdle ==
    /\ sn_in = NoPlan
    /\ sn_once = NoPlan
    /\ sn_twice = NoPlan

\* Nothing was handed to validate_action_plan.
SchemaIdle ==
    /\ sc_in = NotDict
    /\ sc_out = NotCalled
    /\ sc_ok = "none"

(* core/ai/ollama_provider.py, core/ai/openrouter.py *)

\* self.max_retries
max_retries == 3

\* What one attempt can come to: a response whose content validates to a
\* plan, one whose content does not (validate_action_plan returns None or
\* raises), an empty or blank content, status 429, another status that is not
\* 200, httpx.TimeoutException, any other exception.
AttemptOutcomes ==
    {"valid", "invalid", "empty", "rate_limited", "status", "timeout", "error"}

\* min(2 ** attempt, 10) seconds, in tenths of a second
Backoff(attempt) == IF 2 ^ attempt < 10 THEN 10 * (2 ^ attempt) ELSE 100

\* The sleep that follows a failed attempt, in tenths of a second. Ollama:
\* `continue` after a non-200 status or an empty content skips the sleep of
\* lines 115-116. OpenRouter: a 429 sleeps the backoff and continues, another
\* non-200 status continues without a sleep, an empty content is handed to
\* validate_action_plan and fails as an invalid plan.
DelayAfter(kind, outcome, attempt) ==
    IF kind = "ollama"
    THEN IF outcome \in {"status", "rate_limited", "empty"} THEN 0
         ELSE IF attempt < max_retries THEN 5 ELSE 0
    ELSE IF outcome = "rate_limited" THEN Backoff(attempt)
         ELSE IF outcome = "status" THEN 0
         ELSE IF attempt < max_retries THEN 10 ELSE 0

\* Mutant: the loop runs one attempt more.
ExhaustedLate(attempt) == attempt > max_retries + 1

\* `for attempt in range(1, self.max_retries + 1)` is exhausted.
Exhausted(attempt) == attempt > max_retries

\* plan() was not called.
ProviderIdle ==
    /\ pr_kind = "ollama"
    /\ pr_attempt = 0
    /\ pr_pc = "idle"
    /\ pr_inflight = 0
    /\ pr_log = <<>>
    /\ pr_result = NoPlan

\* The variables plan() leaves alone.
ProviderRest == <<plan, dvars, envvars, scvars, snvars, tvars, svars, fvars, cvars, pvars>>

\* response = self._client.post(...): the request of this attempt is sent.
ProviderPost ==
    /\ pr_pc = "attempt"
    /\ ~Exhausted(pr_attempt)
    /\ pr_inflight' = pr_inflight + 1
    /\ pr_pc' = "waiting"
    /\ UNCHANGED <<ProviderRest, pr_kind, pr_attempt, pr_log, pr_result>>

\* The request is answered or fails: a valid plan is returned at once, any
\* other outcome (after its sleep) leads to the next attempt.
ProviderResponse ==
    /\ pr_pc = "waiting"
    /\ pr_inflight' = pr_inflight - 1
    /\ \E o \in AttemptOutcomes :
          /\ pr_log' = Append(pr_log, [attempt |-> pr_attempt, outcome |-> o,
                                       delay |-> IF o = "valid" THEN 0
                                                 ELSE DelayAfter(pr_kind, o, pr_attempt)])
          /\ IF o = "valid"
             THEN \E r \in BackendPlans :
                     /\ pr_result' = r
                     /\ pr_pc' = "done"
                     /\ pr_attempt' = pr_attempt
             ELSE /\ pr_result' = pr_result
                  /\ pr_pc' = "attempt"
                  /\ pr_attempt' = pr_attempt + 1
    /\ UNCHANGED <<ProviderRest, pr_kind>>

\* All attempts failed: return None.
ProviderGiveUp ==
    /\ pr_pc = "attempt"
    /\ Exhausted(pr_attempt)
    /\ pr_result' = NoPlan
    /\ pr_pc' = "done"
    /\ UNCHANGED <<ProviderRest, pr_kind, pr_attempt, pr_inflight, pr_log>>

\* The window as built: Start enabled, Stop disabled, no thread started.
ThreadsIdle ==
    /\ threads = <<>>
    /\ start_enabled = TRUE

AiIdle ==
    /\ SchemaIdle
    /\ SanitizeIdle
    /\ ThreadsIdle
    /\ ProviderIdle

----------------------------------------------------------------------------
(* gui/main_window.py: request_confirmation and its dialog *)

\* Entry of request_confirmation: self._confirmation_event.clear()
RcCall ==
    /\ rc_pc \in {"idle", "done"}
    /\ rc_req < MaxRequests
    /\ rc_req' = rc_req + 1
    /\ event' = FALSE
    /\ rc_pc' = "reset"
    /\ rc_timed_out' = FALSE
    /\ rc_at_timeout' = "None"
    /\ rc_return' = FALSE
    /\ UNCHANGED <<conf_result, signals, dialogs>>

\* request_confirmation is called by a caller of its own.
RcClear ==
    /\ RcCall
    /\ UNCHANGED <<plan, dvars, envvars, aivars, svars, fvars, pvars>>

\* self._confirmation_result = None
RcReset ==
    /\ rc_pc = "reset"
    /\ conf_result' = "None"
    /\ rc_pc' = "emit"
    /\ UNCHANGED <<plan, dvars, envvars, aivars, svars, fvars, pvars, event, rc_req, rc_timed_out,
                   rc_at_timeout, rc_return, signals, dialogs>>

\* self.sig_request_confirmation.emit(message): queued to the GUI thread.
RcEmit ==
    /\ rc_pc = "emit"
    /\ signals' = Append(signals, rc_req)
    /\ rc_pc' = "wait"
    /\ UNCHANGED <<plan, dvars, envvars, aivars, svars, fvars, pvars, event, conf_result, rc_req,
                   rc_timed_out, rc_at_timeout, rc_return, dialogs>>

\* self._confirmation_event.wait(timeout=60) returns because the event is set.
RcWaitSet ==
    /\ rc_pc = "wait"
    /\ event
    /\ rc_pc' = "return"
    /\ UNCHANGED <<plan, dvars, envvars, aivars, svars, fvars, pvars, event, conf_result, rc_req,
                   rc_timed_out, rc_at_timeout, rc_return, signals, dialogs>>

\* The wait returns because the 60 seconds passed with the event not set.
RcWaitTimeout ==
    /\ rc_pc = "wait"
    /\ ~event
    /\ rc_pc' = "return"
    /\ rc_timed_out' = TRUE
    /\ rc_at_timeout' = conf_result
    /\ UNCHANGED <<plan, dvars, envvars, aivars, svars, fvars, pvars, event, conf_result, rc_req,
                   rc_return, signals, dialogs>>

\* `self._confirmation_result or False`
ReturnValue(result) == result = "True"

\* return self._confirmation_result or False
RcReturn ==
    /\ rc_pc = "return"
    /\ rc_return' = ReturnValue(conf_result)
    /\ rc_pc' = "done"
    /\ UNCHANGED <<plan, dvars, envvars, aivars, svars, fvars, pvars, event, conf_result, rc_req,
                   rc_timed_out, rc_at_timeout, signals, dialogs>>

\* GUI thread: the slot _show_confirmation_dialog starts for the oldest queued
\* signal and opens its modal dialog (QMessageBox.question runs a nested event
\* loop, so a dialog can open while an older one is still open).
GuiShowDialog ==
    /\ signals # <<>>
    /\ dialogs' = Append(dialogs, [req |-> Head(signals), stage |-> "open"])
    /\ signals' = Tail(signals)
    /\ UNCHANGED <<plan, dvars, envvars, aivars, svars, fvars, pvars, event, conf_result, rc_pc, rc_req,
                   rc_timed_out, rc_at_timeout, rc_return>>

\* GUI thread: the user answers the topmost dialog;
\* self._confirmation_result = (reply == Yes)
GuiAnswer ==
    /\ dialogs # <<>>
    /\ dialogs[Len(dialogs)].stage = "open"
    /\ \E yes \in BOOLEAN :
          conf_result' = IF yes THEN "True" ELSE "False"
    /\ dialogs' = [dialogs EXCEPT ![Len(dialogs)].stage = "answered"]
    /\ UNCHANGED <<plan, dvars, envvars, aivars, svars, fvars, pvars, event, rc_pc, rc_req,
                   rc_timed_out, rc_at_timeout, rc_return, signals>>

\* GUI thread: self._confirmation_event.set(); the slot returns.
GuiSetEvent ==
    /\ dialogs # <<>>
    /\ dialogs[Len(dialogs)].stage = "answered"
    /\ event' = TRUE
    /\ dialogs' = SubSeq(dialogs, 1, Len(dialogs) - 1)
    /\ UNCHANGED <<plan, dvars, envvars, aivars, svars, fvars, pvars, conf_result, rc_pc, rc_req,
                   rc_timed_out, rc_at_timeout, rc_return, signals>>

\* Before start(): the loop is not running and nothing was saved.
PipelineIdle ==
    /\ p_pc = "stopped"
    /\ status = "idle"
    /\ running = FALSE
    /\ gui = TRUE
    /\ approved = "unset"
    /\ saved = <<>>
    /\ utt = 0
    /\ command = <<>>
    /\ ai_calls = <<>>
    /\ raised = FALSE

\* MaxMainWindow.__init__: no result, event not set, nothing shown.
ConfirmCreated ==
    /\ event = FALSE
    /\ conf_result = "None"
    /\ rc_pc = "idle"
    /\ rc_req = 0
    /\ rc_timed_out = FALSE
    /\ rc_at_timeout = "None"
    /\ rc_return = FALSE
    /\ signals = <<>>
    /\ dialogs = <<>>

----------------------------------------------------------------------------
(* core/execution/dispatcher.py *)

\* Keys of ActionDispatcher._handlers.
Handlers ==
    {"open_browser", "navigate", "search_web", "click", "type_text", "press_key",
     "move_mouse", "file_create", "file_delete", "file_move", "open_app",
     "close_app", "system_volume", "system_brightness", "system_sleep",
     "system_lock", "system_shutdown", "system_restart", "system_wifi",
     "system_bluetooth", "system_screensaver", "system_mute", "system_unmute",
     "install_software", "read_screen", "summarize_screen", "wait"}

\* What one handler invocation can do: return a dict with success True, with
\* success False, a dict with no success key, a value that is no dict (the
\* item assignment on it raises TypeError), or raise.
HandlerOutcomes == {"ok", "fail", "nosuccess", "nodict", "raise"}

\* The dict a handler returns, for the outcomes that return one.
HandlerDict(o) ==
    CASE o = "ok" -> [success |-> TRUE, message |-> "ok"]
      [] o = "fail" -> [success |-> FALSE, message |-> "failed"]
      [] OTHER -> [message |-> "no success key"]

ActionOf(i) == plan.actions[i + 1]
NumActions == Len(plan.actions)

\* The entry appended for an index of skip_indices.
SkippedBlocked(i) ==
    [action_index |-> i, action_type |-> ActionOf(i).type, success |-> FALSE,
     message |-> "Skipped (blocked or denied)", skipped |-> TRUE]

\* The entry appended for every index after a failed action.
SkippedAfterFailure(j) ==
    [action_index |-> j, action_type |-> ActionOf(j).type, success |-> FALSE,
     message |-> "Skipped (previous action failed)", skipped |-> TRUE]

\* The returned dict with action_index, action_type and elapsed_seconds set.
Stamped(r, i) ==
    [k \in DOMAIN r \cup {"action_index", "action_type", "elapsed_seconds"} |->
        CASE k = "action_index" -> i
          [] k = "action_type" -> ActionOf(i).type
          [] k = "elapsed_seconds" -> 0
          [] OTHER -> r[k]]

\* Mutant: the except branch does not record the elapsed time.
ExceptionResultUntimed(i) ==
    [action_index |-> i, action_type |-> ActionOf(i).type, success |-> FALSE,
     message |-> "Exception"]

\* The entry appended by the except branch.
ExceptionResult(i) ==
    [action_index |-> i, action_type |-> ActionOf(i).type, success |-> FALSE,
     message |-> "Exception", elapsed_seconds |-> 0]

\* Mutant: the skipped entries start one index too late.
RemainingSkippedLate(i) ==
    [n \in 1..(NumActions - i - 2) |-> SkippedAfterFailure(i + n + 1)]

\* The entries the stop-on-failure branch appends after the failure at i.
RemainingSkipped(i) ==
    [n \in 1..(NumActions - i - 1) |-> SkippedAfterFailure(i + n)]

\* Mutant: a failed action does not stop the loop.
AfterResultNoStop(r, i) ==
    /\ results' = Append(results, Stamped(r, i))
    /\ d_i' = i + 1
    /\ d_pc' = "loop"

\* Body of the try block once `result` is known: append it and, when it is not
\* a success, append the skipped entries and break.
AfterResult(r, i) ==
    IF Get(r, "success", FALSE)
    THEN /\ results' = Append(results, Stamped(r, i))
         /\ d_i' = i + 1
         /\ d_pc' = "loop"
    ELSE /\ results' = Append(results, Stamped(r, i)) \o RemainingSkipped(i)
         /\ d_i' = i
         /\ d_pc' = "break"

\* The except branch: one failure entry, then break.
AfterException(i) ==
    /\ results' = Append(results, ExceptionResult(i))
    /\ d_i' = i
    /\ d_pc' = "break"

\* Loop iteration for an index in skip_indices.
DispatchSkip ==
    /\ d_pc = "loop"
    /\ d_i < NumActions
    /\ d_i \in skip_indices
    /\ results' = Append(results, SkippedBlocked(d_i))
    /\ d_i' = d_i + 1
    /\ UNCHANGED <<plan, skip_indices, d_pc, calls, last_results, nondvars>>

\* Loop iteration for an action type with no registered handler.
DispatchNoHandler ==
    /\ d_pc = "loop"
    /\ d_i < NumActions
    /\ d_i \notin skip_indices
    /\ ActionOf(d_i).type \notin Handlers
    /\ AfterResult([success |-> FALSE, message |-> "No handler"], d_i)
    /\ UNCHANGED <<plan, skip_indices, calls, last_results, nondvars>>

\* Loop iteration that invokes the handler of action d_i.
DispatchInvoke ==
    /\ d_pc = "loop"
    /\ d_i < NumActions
    /\ d_i \notin skip_indices
    /\ ActionOf(d_i).type \in Handlers
    /\ \E o \in HandlerOutcomes :
          /\ calls' = Append(calls, [index |-> d_i, outcome |-> o])
          /\ IF o \in {"raise", "nodict"}
             THEN AfterException(d_i)
             ELSE AfterResult(HandlerDict(o), d_i)
    /\ UNCHANGED <<plan, skip_indices, last_results, nondvars>>

\* Loop exit (exhausted or break): self._results = results; return results.
DispatchReturn ==
    /\ \/ d_pc = "loop" /\ d_i >= NumActions
       \/ d_pc = "break"
    /\ last_results' = results
    /\ d_pc' = "done"
    /\ UNCHANGED <<plan, skip_indices, results, d_i, calls, nondvars>>

\* Entry of execute_plan(p, skip).
DispatchEnter(p, skip) ==
    /\ plan = p
    /\ skip_indices = skip
    /\ results = <<>>
    /\ d_i = 0
    /\ d_pc = "loop"
    /\ calls = <<>>

\* execute_plan(p, skip) is called: results = [] and the loop starts.
DispatchCall(p, skip) ==
    /\ skip_indices' = skip
    /\ results' = <<>>
    /\ d_i' = 0
    /\ d_pc' = "loop"
    /\ calls' = <<>>
    /\ UNCHANGED last_results

----------------------------------------------------------------------------
(* core/ai/rule_parser.py *)

\* A command is the sequence of the words of text.lower().strip(); a number
\* in it is one of the words of NumberWords.
NumberWords == {"0", "30", "120"}

\* int(match.group(1))
IntOf(word) ==
    CASE word = "0" -> 0
      [] word = "30" -> 30
      [] OTHER -> 120

\* The plan of a rule: one action, task_type single_step, no
\* requires_confirmation key.
RulePlan(type, parameters) ==
    [task_type |-> "single_step",
     actions |-> <<[type |-> type, parameters |-> parameters]>>]

\* ^(?:open|launch|start)\s+(?:before\s+)?name(?:\s+after)?$ ; "" where the
\* pattern has no optional word.
OpenPattern(w, before, name, after) ==
    /\ Len(w) >= 2
    /\ w[1] \in {"open", "launch", "start"}
    /\ \/ Tail(w) = <<name>>
       \/ before # "" /\ Tail(w) = <<before, name>>
       \/ after # "" /\ Tail(w) = <<name, after>>
       \/ before # "" /\ after # "" /\ Tail(w) = <<before, name, after>>

\* (?:\s+(?:the\s+)?(?:audio|sound|volume))?$ after the first word
OptionalSound(w) ==
    \/ Len(w) = 1
    \/ Len(w) = 2 /\ w[2] \in {"audio", "sound", "volume"}
    \/ Len(w) = 3 /\ w[2] = "the" /\ w[3] \in {"audio", "sound", "volume"}

\* ^set\s+(?:the\s+)?what\s+to\s+(\d+)(?:\s*%)?$ and ^what\s+(\d+)(?:\s*%)?$ :
\* the position of the number, 0 when neither pattern matches.
LevelAt(w, what) ==
    IF Len(w) = 4 /\ w[1] = "set" /\ w[2] = what /\ w[3] = "to" /\ w[4] \in NumberWords
    THEN 4
    ELSE IF Len(w) = 5 /\ w[1] = "set" /\ w[2] = "the" /\ w[3] = what /\ w[4] = "to"
            /\ w[5] \in NumberWords
    THEN 5
    ELSE IF Len(w) = 2 /\ w[1] = what /\ w[2] \in NumberWords
    THEN 2
    ELSE 0

\* ^(?:lock|lock\s+(?:the\s+)?screen|lock\s+up)$
LockPattern(w) ==
    w \in {<<"lock">>, <<"lock", "screen">>, <<"lock", "the", "screen">>, <<"lock", "up">>}

\* ^(?:sleep|put\s+(?:the\s+)?(?:system|computer)\s+to\s+sleep|go\s+to\s+sleep)$
SleepPattern(w) ==
    \/ w \in {<<"sleep">>, <<"go", "to", "sleep">>}
    \/ \E x \in {"system", "computer"} :
          w \in {<<"put", x, "to", "sleep">>, <<"put", "the", x, "to", "sleep">>}

\* ^(?:names)(?:\s+in\s+(\d+)\s+(?:second|sec))?$ : the length of the
\* name when the pattern matches without a delay, the position of the number
\* when it matches with one, 0 when it does not match.
PowerAt(w, names) ==
    IF w \in names THEN Len(w)
    ELSE IF \E n \in names :
               /\ Len(w) = Len(n) + 3
               /\ SubSeq(w, 1, Len(n)) = n
               /\ w[Len(n) + 1] = "in"
               /\ w[Len(n) + 2] \in NumberWords
               /\ w[Len(n) + 3] \in {"second", "sec"}
    THEN Len(w) - 1
    ELSE 0

\* delay = 60; if match.group(1): delay = int(match.group(1))
PowerDelay(w, names) ==
    IF w \in names THEN 60 ELSE IntOf(w[PowerAt(w, names)])

\* ^(?:turn\s+)?device\s+(?:on|off)$
SwitchPattern(w, device) ==
    \E x \in {"on", "off"} : w \in {<<device, x>>, <<"turn", device, x>>}

\* "on" if "on" in text_lower else "off": none of the other words of the
\* two patterns contains "on".
SwitchAction(w) == IF w[Len(w)] = "on" THEN "on" ELSE "off"

\* ^(?:toggle|switch)\s+device$
TogglePattern(w, device) == w \in {<<"toggle", device>>, <<"switch", device>>}

\* parse_simple_command: the plan of the first rule of SIMPLE_COMMAND_RULES
\* whose pattern matches, NoPlan (None) when none does.
parse_simple_command(w) ==
    IF OpenPattern(w, "google", "chrome", "browser")
    THEN RulePlan("open_browser", [browser |-> "chrome"])
    ELSE IF OpenPattern(w, "mozilla", "firefox", "browser")
    THEN RulePlan("open_app", [name |-> "firefox"])
    ELSE IF OpenPattern(w, "microsoft", "edge", "browser")
    THEN RulePlan("open_app", [name |-> "edge"])
    ELSE IF OpenPattern(w, "ms", "word", "document")
    THEN RulePlan("open_app", [name |-> "winword"])
    ELSE IF OpenPattern(w, "ms", "excel", "sheet")
    THEN RulePlan("open_app", [name |-> "excel"])
    ELSE IF OpenPattern(w, "", "notepad", "")
    THEN RulePlan("open_app", [name |-> "notepad"])
    ELSE IF OpenPattern(w, "file", "explorer", "")
    THEN RulePlan("open_app", [name |-> "explorer"])
    ELSE IF OpenPattern(w, "task", "manager", "")
    THEN RulePlan("open_app", [name |-> "taskmgr"])
    ELSE IF OpenPattern(w, "", "calculator", "")
    THEN RulePlan("open_app", [name |-> "calculator"])
    ELSE IF OpenPattern(w, "", "settings", "")
    THEN RulePlan("open_app", [name |-> "settings"])
    ELSE IF Len(w) >= 1 /\ w[1] \in {"mute", "silence"} /\ OptionalSound(w)
    THEN RulePlan("system_volume", [action |-> "mute"])
    ELSE IF Len(w) >= 1 /\ w[1] = "unmute" /\ OptionalSound(w)
    THEN RulePlan("system_volume", [action |-> "unmute"])
    ELSE IF LevelAt(w, "volume") # 0
    THEN RulePlan("system_volume", [level |-> IntOf(w[LevelAt(w, "volume")])])
    ELSE IF LevelAt(w, "brightness") # 0
    THEN RulePlan("system_brightness", [level |-> IntOf(w[LevelAt(w, "brightness")])])
    ELSE IF LockPattern(w)
    THEN RulePlan("system_lock", NoParams)
    ELSE IF SleepPattern(w)
    THEN RulePlan("system_sleep", [delay |-> 0])
    ELSE IF PowerAt(w, {<<"shutdown">>, <<"shut", "down">>, <<"power", "off">>}) # 0
    THEN RulePlan("system_shutdown",
                  [delay |-> PowerDelay(w, {<<"shutdown">>, <<"shut", "down">>,
                                            <<"power", "off">>})])
    ELSE IF PowerAt(w, {<<"restart">>, <<"reboot">>}) # 0
    THEN RulePlan("system_restart",
                  [delay |-> PowerDelay(w, {<<"restart">>, <<"reboot">>})])
    ELSE IF SwitchPattern(w, "wifi")
    THEN RulePlan("system_wifi", [action |-> SwitchAction(w)])
    ELSE IF TogglePattern(w, "wifi")
    THEN RulePlan("system_wifi", [action |-> "toggle"])
    ELSE IF SwitchPattern(w, "bluetooth")
    THEN RulePlan("system_bluetooth", [action |-> SwitchAction(w)])
    ELSE IF TogglePattern(w, "bluetooth")
    THEN RulePlan("system_bluetooth", [action |-> "toggle"])
    ELSE NoPlan

----------------------------------------------------------------------------
(* core/orchestrator.py *)

\* set(list)
ToSet(seq) == {seq[n] : n \in 1..Len(seq)}

\* Mutant: every conversation is recorded as a success.
SaveConversationAsSuccess(plan_json, result, success) ==
    saved' = Append(saved, [utt |-> utt, plan |-> plan_json, result |-> result,
                            success |-> TRUE])

\* self.memory.save_conversation(command, plan_json, result, success)
SaveConversation(plan_json, result, success) ==
    saved' = Append(saved, [utt |-> utt, plan |-> plan_json, result |-> result,
                            success |-> success])

\* The locals of one loop iteration, before they are assigned.
LocalsUnset ==
    /\ plan' = NoPlan
    /\ validation' = NoValidation
    /\ approved' = "unset"
    /\ skip_indices' = {}
    /\ results' = <<>>
    /\ d_i' = 0
    /\ d_pc' = "idle"
    /\ calls' = <<>>
    /\ command' = <<>>
    /\ ai_calls' = <<>>
    /\ raised' = FALSE

\* Orchestrator.start(), past the `if self._running: return` guard.
Start ==
    /\ ~running
    /\ p_pc = "stopped"
    /\ running' = TRUE
    /\ p_pc' = "top"
    /\ UNCHANGED <<plan, dvars, envvars, aivars, svars, fvars, cvars, status, gui, command, ai_calls, raised, approved,
                   saved, utt>>

\* Orchestrator.stop(), called from the GUI thread.
Stop ==
    /\ running
    /\ running' = FALSE
    /\ UNCHANGED <<plan, dvars, envvars, aivars, svars, fvars, cvars, p_pc, status, gui, command, ai_calls, raised,
                   approved, saved, utt>>

\* `while self._running` is false: _main_loop returns.
LoopExit ==
    /\ p_pc = "top"
    /\ ~running
    /\ p_pc' = "stopped"
    /\ UNCHANGED <<plan, dvars, envvars, aivars, svars, fvars, cvars, status, running, gui, command, ai_calls, raised,
                   approved, saved, utt>>

\* Loop head: status idle, then the blocking read of the audio buffer.
LoopTop ==
    /\ p_pc = "top"
    /\ running
    /\ status' = "idle"
    /\ p_pc' = "hotword"
    /\ LocalsUnset
    /\ saved' = <<>>
    /\ UNCHANGED <<last_results, envvars, aivars, safe_mode, action_in, classification, fvars,
                   cvars, running, gui, utt>>

\* Phase 1: no audio or no wake word -> continue; wake word -> listening.
Hotword ==
    /\ p_pc = "hotword"
    /\ \E detected \in BOOLEAN :
          IF detected
          THEN status' = "listening" /\ p_pc' = "record"
          ELSE status' = status /\ p_pc' = "top"
    /\ UNCHANGED <<plan, dvars, envvars, aivars, svars, fvars, cvars, running, gui, command, ai_calls, raised, approved,
                   saved, utt>>

\* Phase 2: record_utterance; None -> idle and continue.
Record ==
    /\ p_pc = "record"
    /\ \E speech \in BOOLEAN :
          IF speech
          THEN status' = "processing" /\ p_pc' = "transcribe"
          ELSE status' = "idle" /\ p_pc' = "top"
    /\ UNCHANGED <<plan, dvars, envvars, aivars, svars, fvars, cvars, running, gui, command, ai_calls, raised, approved,
                   saved, utt>>

\* The commands the transcriptions of the pipeline runs yield: one that a
\* rule of SIMPLE_COMMAND_RULES matches (scenario A) and one that none matches.
Commands == {<<"open", "notepad">>, <<"delete", "my", "notes">>}

\* Phase 3: transcribe; no text -> continue; else the command is obtained.
Transcribe ==
    /\ p_pc = "transcribe"
    /\ \/ \E c \in Commands :
             /\ utt < MaxUtterances
             /\ command' = c
             /\ utt' = utt + 1
             /\ p_pc' = "plan"
       \/ /\ UNCHANGED <<command, utt>>
          /\ p_pc' = "top"
    /\ UNCHANGED <<plan, dvars, envvars, aivars, svars, fvars, cvars, status, running, gui,
                   ai_calls, raised, approved, saved>>

\* The plans self.ai.plan returns in the pipeline runs: a safe action
\* (scenario A), a file deletion outside the protected roots (scenario B), a
\* safe action followed by a write inside the installation directory
\* (scenario C), a clarification, and a safe plan that asks for confirmation.
PipelinePlans ==
    {[task_type |-> "single_step", requires_confirmation |-> FALSE,
      actions |-> <<[type |-> "open_app", parameters |-> [name |-> "notepad"]]>>],
     [task_type |-> "single_step", requires_confirmation |-> FALSE,
      actions |-> <<[type |-> "file_delete",
                     parameters |-> [path |-> [isstr |-> TRUE, abs |-> TRUE,
                                               parts |-> <<"Users", "notes">>]]]>>],
     [task_type |-> "multi_step", requires_confirmation |-> FALSE,
      actions |-> <<[type |-> "open_app", parameters |-> NoParams],
                    [type |-> "file_create",
                     parameters |-> [path |-> [isstr |-> TRUE, abs |-> FALSE,
                                               parts |-> <<"notes">>]]]>>],
     [task_type |-> "clarify", requires_confirmation |-> FALSE,
      actions |-> <<[type |-> "wait", parameters |-> NoParams]>>],
     [task_type |-> "multi_step", requires_confirmation |-> TRUE,
      actions |-> <<[type |-> "open_app", parameters |-> NoParams],
                    [type |-> "wait", parameters |-> NoParams]>>]}

\* Mutant: a clarification plan goes on to validation like any other plan.
GetPlanClarifyValidated ==
    /\ p_pc = "plan"
    /\ ai_calls' = Append(ai_calls, command)
    /\ \E r \in PipelinePlans \cup {NoPlan} :
          /\ plan' = r
          /\ IF r = NoPlan
             THEN /\ SaveConversation(NoPlan, "Plan generation failed", FALSE)
                  /\ p_pc' = "top"
             ELSE /\ saved' = saved
                  /\ p_pc' = "validate"
    /\ UNCHANGED <<dvars, envvars, aivars, svars, fvars, cvars, status, running, gui, raised,
                   command, approved, utt>>

\* Phase 4: plan = self.ai.plan(command, recent); None and clarify end the
\* utterance with a saved record.
GetPlan ==
    /\ p_pc = "plan"
    /\ ai_calls' = Append(ai_calls, command)
    /\ \E r \in PipelinePlans \cup {NoPlan} :
          /\ plan' = r
          /\ IF r = NoPlan
             THEN /\ SaveConversation(NoPlan, "Plan generation failed", FALSE)
                  /\ p_pc' = "top"
             ELSE IF r.task_type = "clarify"
             THEN /\ SaveConversation(r, "Clarification requested", TRUE)
                  /\ p_pc' = "top"
             ELSE /\ saved' = saved
                  /\ p_pc' = "validate"
    /\ UNCHANGED <<dvars, envvars, aivars, svars, fvars, cvars, status, running, gui, raised,
                   command, approved, utt>>

\* Mutant: an unapproved plan goes on to confirmation or execution.
AfterValidationIgnoresBlock(v) ==
    IF v.needs_confirmation THEN "confirm" ELSE "execute"

\* Where the loop goes after validate_plan returned v.
AfterValidation(v) ==
    IF ~v.approved THEN "blocked"
    ELSE IF v.needs_confirmation THEN "confirm"
    ELSE "execute"

\* Phase 5: validate_plan; an unapproved plan is saved as failed -> continue.
ValidateStep ==
    /\ p_pc = "validate"
    /\ validation' = ValidatePlan(plan, safe_mode)
    /\ IF AfterValidation(validation') = "blocked"
       THEN /\ SaveConversation(plan, "Action blocked by safety policy.", FALSE)
            /\ p_pc' = "top"
       ELSE /\ saved' = saved
            /\ p_pc' = AfterValidation(validation')
    /\ UNCHANGED <<plan, dvars, envvars, aivars, safe_mode, action_in, classification, fvars,
                   cvars, status, running, gui, command, ai_calls, raised, approved, utt>>

\* Phase 6 with a window: approved = self.gui.request_confirmation(confirm_msg)
ConfirmGui ==
    /\ p_pc = "confirm"
    /\ gui
    /\ RcCall
    /\ p_pc' = "confirming"
    /\ UNCHANGED <<plan, dvars, envvars, aivars, svars, fvars, status, running, gui, command, ai_calls, raised, approved,
                   saved, utt>>

\* Mutant: the plan is executed whatever the answer was.
AfterConfirmationAlways(answer) == "execute"

\* Where the loop goes after the confirmation answered.
AfterConfirmation(answer) == IF answer THEN "execute" ELSE "denied"

\* The branch on `approved` after either confirmation interface returned.
Confirmed(answer) ==
    /\ approved' = IF answer THEN "yes" ELSE "no"
    /\ IF AfterConfirmation(answer) = "denied"
       THEN /\ SaveConversation(plan, "User denied", FALSE)
            /\ p_pc' = "top"
       ELSE /\ saved' = saved
            /\ p_pc' = "execute"

\* request_confirmation returned.
ConfirmGuiReturn ==
    /\ p_pc = "confirming"
    /\ rc_pc = "done"
    /\ Confirmed(rc_return)
    /\ UNCHANGED <<plan, dvars, envvars, aivars, svars, fvars, cvars, status, running, gui, command, ai_calls, raised, utt>>

\* Phase 6 without a window: input("Approve? (y/n): ").strip().lower()
ConfirmCli ==
    /\ p_pc = "confirm"
    /\ ~gui
    /\ \E response \in {"y", "yes", "n", ""} : Confirmed(response \in {"y", "yes"})
    /\ UNCHANGED <<plan, dvars, envvars, aivars, svars, fvars, cvars, status, running, gui, command, ai_calls, raised, utt>>

\* Phase 7: status executing; execute_plan(plan, set(blocked_actions)) starts.
Execute ==
    /\ p_pc = "execute"
    /\ status' = "executing"
    /\ DispatchCall(plan, ToSet(Get(validation, "blocked_actions", <<>>)))
    /\ p_pc' = "dispatching"
    /\ UNCHANGED <<plan, envvars, aivars, svars, fvars, cvars, running, gui, command, ai_calls, raised, approved, saved, utt>>

\* Mutant: one successful result makes the conversation a success.
AnySuccess(rs) == \E n \in 1..Len(rs) : Get(rs[n], "success", FALSE)

\* all_success as the loop over the results computes it.
AllSuccess(rs) == \A n \in 1..Len(rs) : Get(rs[n], "success", FALSE)

\* Mutant: after stop() the results are not saved.
RespondUnlessStopped ==
    /\ p_pc = "dispatching"
    /\ d_pc = "done"
    /\ IF running
       THEN SaveConversation(plan, last_results, AllSuccess(last_results))
       ELSE saved' = saved
    /\ p_pc' = "top"
    /\ UNCHANGED <<plan, dvars, envvars, aivars, svars, fvars, cvars, status, running, gui,
                   command, ai_calls, raised, approved, utt>>

\* Phases 8 and 9: execute_plan returned; respond and save the conversation.
Respond ==
    /\ p_pc = "dispatching"
    /\ d_pc = "done"
    /\ SaveConversation(plan, last_results, AllSuccess(last_results))
    /\ p_pc' = "top"
    /\ UNCHANGED <<plan, dvars, envvars, aivars, svars, fvars, cvars, status, running, gui, command, ai_calls, raised,
                   approved, utt>>

\* Stages whose external call can raise into the loop's except clause.
ErrorStages == {"hotword", "record", "transcribe", "plan", "validate", "confirm"}

\* Mutant: an exception leaves the loop.
StageErrorFatal ==
    /\ p_pc \in ErrorStages
    /\ p_pc = "confirm" => ~gui
    /\ status' = "error"
    /\ raised' = TRUE
    /\ p_pc' = "stopped"
    /\ UNCHANGED <<plan, dvars, envvars, aivars, svars, fvars, cvars, running, gui, command,
                   ai_calls, approved, saved, utt>>

\* except Exception: log, status error, sleep(1), next iteration.
StageError ==
    /\ p_pc \in ErrorStages
    /\ p_pc = "confirm" => ~gui
    /\ status' = "error"
    /\ raised' = TRUE
    /\ p_pc' = "top"
    /\ UNCHANGED <<plan, dvars, envvars, aivars, svars, fvars, cvars, running, gui, command, ai_calls, approved,
                   saved, utt>>

\* Action types the dispatcher inputs draw from: two registered ones and one
\* with no handler.
DispatchTypes == {"open_app", "wait", "format_disk"}

DispatchPlans ==
    UNION {[task_type : {"multi_step"}, requires_confirmation : {FALSE},
            actions : [1..n -> [type : DispatchTypes, parameters : {NoParams}]]]
           : n \in 1..MaxActions}

\* The working directory is the installation directory or a user directory.
EnvInit ==
    /\ cwd \in {PROJECT_ROOT, <<"Users">>}
    /\ url_strip \in BOOLEAN

EnvFixed ==
    /\ cwd = PROJECT_ROOT
    /\ url_strip = TRUE

SafetyIdle ==
    /\ safe_mode = TRUE
    /\ action_in = NoAction
    /\ classification = "none"
    /\ validation = NoValidation

DispatchIdle ==
    /\ skip_indices = {}
    /\ results = <<>>
    /\ d_i = 0
    /\ d_pc = "idle"
    /\ calls = <<>>
    /\ last_results = <<>>

InitDispatch ==
    /\ PipelineIdle
    /\ EnvFixed
    /\ SafetyIdle
    /\ FallbackCreated /\ f_primary = "local"
    /\ ConfirmCreated
    /\ AiIdle
    /\ last_results = <<>>
    /\ \E p \in DispatchPlans :
         \E skip \in SUBSET (0..(Len(p.actions) - 1)) :
            DispatchEnter(p, skip)

NextDispatch ==
    \/ DispatchSkip
    \/ DispatchNoHandler
    \/ DispatchInvoke
    \/ DispatchReturn

SpecDispatch == InitDispatch /\ [][NextDispatch]_vars

----------------------------------------------------------------------------
(* classify_action and validate_plan on drawn inputs *)

PathComps == {"Windows", "Boot", "..", "notes"}

\* Path strings: absolute or relative, up to MaxPathLen components, and one
\* value that is no string.
PathStrs ==
    {[isstr |-> FALSE, abs |-> TRUE, parts |-> <<>>]} \cup
    UNION {[isstr : {TRUE}, abs : BOOLEAN, parts : [1..n -> PathComps]]
           : n \in 0..MaxPathLen}

UrlStrs ==
    [ws : BOOLEAN, scheme : {"", "https", "JavaScript", "file", "FTP"},
     rest : {"//", "///"}]

KeyStrs == [text : {"Alt+F4", "win+l", "ctrl+s"}, spaced : BOOLEAN]

\* Parameter dicts of the classifier inputs: none, one path-bearing key, two
\* path-bearing keys, a url, a url with a path, a key.
ClassifyParams ==
    {NoParams}
    \cup UNION {[{k} -> PathStrs] : k \in {"path", "source", "destination"}}
    \cup [{"source", "destination"} -> PathStrs]
    \cup [{"path", "destination"} -> PathStrs]
    \cup [{"url"} -> UrlStrs]
    \cup {[k \in {"path", "url"} |-> IF k = "path" THEN q ELSE u]
            : q \in {x \in PathStrs : Len(x.parts) <= 1}, u \in UrlStrs}
    \cup [{"key"} -> KeyStrs]

ClassifyTypes == {"file_move", "navigate", "press_key", "system_shutdown"}

ClassifyActions == [type : ClassifyTypes, parameters : ClassifyParams]

InitClassify ==
    /\ PipelineIdle
    /\ EnvInit
    /\ DispatchIdle
    /\ FallbackCreated /\ f_primary = "local"
    /\ ConfirmCreated
    /\ AiIdle
    /\ plan = NoPlan
    /\ safe_mode = TRUE
    /\ validation = NoValidation
    /\ classification = "none"
    /\ action_in \in ClassifyActions

\* One call of classify_action on the drawn action.
Classify ==
    /\ classification = "none"
    /\ classification' = ClassifyAction(action_in)
    /\ UNCHANGED <<plan, dvars, envvars, aivars, fvars, cvars, pvars, safe_mode, action_in, validation>>

NextClassify == Classify

SpecClassify == InitClassify /\ [][NextClassify]_vars

AbsPath(parts) == [isstr |-> TRUE, abs |-> TRUE, parts |-> parts]
RelPath(parts) == [isstr |-> TRUE, abs |-> FALSE, parts |-> parts]

\* Actions the plans of the validate_plan inputs are built from: safe ones, a
\* dangerous type, a dangerous path, a dangerous key, and actions blocked by
\* type, by a protected path and by a URL scheme.
PlanActions ==
    {[type |-> "open_app", parameters |-> NoParams],
     [type |-> "file_delete", parameters |-> [path |-> AbsPath(<<"Users", "notes">>)]],
     [type |-> "file_create", parameters |-> [path |-> AbsPath(<<"Users", "Boot">>)]],
     [type |-> "file_create", parameters |-> [path |-> RelPath(<<"notes">>)]],
     [type |-> "file_create", parameters |-> [path |-> AbsPath(<<"Users", "..", "Windows">>)]],
     [type |-> "press_key", parameters |-> [key |-> [text |-> "Alt+F4", spaced |-> TRUE]]],
     [type |-> "navigate", parameters |-> [url |-> [ws |-> FALSE, scheme |-> "JavaScript", rest |-> ""]]],
     [type |-> "system_shutdown", parameters |-> NoParams]}

ValidatePlans ==
    UNION {[task_type : {"multi_step"}, requires_confirmation : BOOLEAN,
            actions : [1..n -> PlanActions]] : n \in 1..MaxActions}

InitValidate ==
    /\ PipelineIdle
    /\ EnvInit
    /\ DispatchIdle
    /\ FallbackCreated /\ f_primary = "local"
    /\ ConfirmCreated
    /\ AiIdle
    /\ plan \in ValidatePlans
    /\ safe_mode \in BOOLEAN
    /\ action_in = NoAction
    /\ classification = "none"
    /\ validation = NoValidation

\* One call of validate_plan on the drawn plan.
Validate ==
    /\ validation = NoValidation
    /\ validation' = ValidatePlan(plan, safe_mode)
    /\ UNCHANGED <<plan, dvars, envvars, aivars, fvars, cvars, pvars, safe_mode, action_in, classification>>

\* main.py wires the GUI check box to `safety.safe_mode`.
SetSafeMode ==
    /\ \E enabled \in BOOLEAN : safe_mode' = enabled
    /\ UNCHANGED <<plan, dvars, envvars, aivars, fvars, cvars, pvars, action_in, classification, validation>>

NextValidate ==
    \/ Validate
    \/ SetSafeMode

SpecValidate == InitValidate /\ [][NextValidate]_vars

----------------------------------------------------------------------------
(* Properties of the safety validator *)

HasVerdict == validation # NoValidation

\* C4: validate_plan returns approved = true if and only if blocked_actions
\* is empty, whatever requires_confirmation, safe_mode and the other actions.
C4_ApprovedIffNoBlocked ==
    HasVerdict =>
        /\ validation.approved <=> (validation.blocked_actions = <<>>)
        /\ validation.approved <=>
              \A n \in 1..Len(plan.actions) : ClassifyAction(plan.actions[n]) # "blocked"

\* C4 witness: a verdict with approved = false on a plan that has a blocked
\* action next to a safe one and does not ask for confirmation itself.
C4_Witness ==
    /\ HasVerdict
    /\ ~validation.approved
    /\ Len(validation.blocked_actions) = 1
    /\ validation.safe_actions # <<>>
    /\ ~plan.requires_confirmation
    /\ ~safe_mode

\* C5: a verdict with an index in dangerous_actions has needs_confirmation =
\* true, whatever the plan's requires_confirmation.
C5_DangerousNeedsConfirmation ==
    HasVerdict =>
        /\ validation.dangerous_actions # <<>> => validation.needs_confirmation
        /\ (\E n \in 1..Len(plan.actions) : ClassifyAction(plan.actions[n]) = "dangerous")
              => validation.needs_confirmation

\* C5 witness: a dangerous action in a plan with requires_confirmation = false,
\* validated with safe mode off.
C5_Witness ==
    /\ HasVerdict
    /\ validation.dangerous_actions # <<>>
    /\ ~plan.requires_confirmation
    /\ ~safe_mode
    /\ validation.needs_confirmation

PathParams(a) == DOMAIN a.parameters \cap {"path", "source", "destination"}

\* C6: classify_action returns "blocked" for every action with a path, source
\* or destination that resolves inside a protected root, whatever the type and
\* the other parameters.
C6_ProtectedPathBlocked ==
    (/\ classification # "none"
     /\ \E k \in PathParams(action_in) :
           /\ action_in.parameters[k].isstr
           /\ InsideProtected(Resolve(action_in.parameters[k])))
        => classification = "blocked"

----------------------------------------------------------------------------
(* FallbackProvider.plan calls, and request_confirmation against the GUI thread *)

InitFallback ==
    /\ PipelineIdle
    /\ EnvFixed
    /\ SafetyIdle
    /\ DispatchIdle
    /\ ConfirmCreated
    /\ AiIdle
    /\ plan = NoPlan
    /\ FallbackCreated

NextFallback ==
    \/ FallbackPlan
    \/ FallbackPrimary
    \/ FallbackSecondary

SpecFallback == InitFallback /\ [][NextFallback]_vars

InitConfirm ==
    /\ PipelineIdle
    /\ EnvFixed
    /\ SafetyIdle
    /\ DispatchIdle
    /\ FallbackCreated /\ f_primary = "local"
    /\ plan = NoPlan
    /\ ConfirmCreated
    /\ AiIdle

NextConfirm ==
    \/ RcClear
    \/ RcReset
    \/ RcEmit
    \/ RcWaitSet
    \/ RcWaitTimeout
    \/ RcReturn
    \/ GuiShowDialog
    \/ GuiAnswer
    \/ GuiSetEvent

SpecConfirm == InitConfirm /\ [][NextConfirm]_vars

----------------------------------------------------------------------------
(* The pipeline: one loop thread, the GUI thread and the handlers *)

Init ==
    /\ EnvFixed
    /\ SafetyIdle
    /\ DispatchIdle
    /\ FallbackCreated /\ f_primary = "local"
    /\ ConfirmCreated
    /\ AiIdle
    /\ plan = NoPlan
    /\ p_pc = "stopped"
    /\ status = "idle"
    /\ running = FALSE
    /\ gui \in BOOLEAN
    /\ approved = "unset"
    /\ saved = <<>>
    /\ utt = 0
    /\ command = <<>>
    /\ ai_calls = <<>>
    /\ raised = FALSE

Next ==
    \/ Start
    \/ Stop
    \/ LoopExit
    \/ LoopTop
    \/ Hotword
    \/ Record
    \/ Transcribe
    \/ GetPlan
    \/ ValidateStep
    \/ ConfirmGui
    \/ RcReset
    \/ RcEmit
    \/ RcWaitSet
    \/ RcWaitTimeout
    \/ RcReturn
    \/ GuiShowDialog
    \/ GuiAnswer
    \/ GuiSetEvent
    \/ ConfirmGuiReturn
    \/ ConfirmCli
    \/ Execute
    \/ DispatchInvoke
    \/ DispatchReturn
    \/ Respond
    \/ StageError
    \/ SetSafeMode

Spec == Init /\ [][Next]_vars

\* The pipeline without a window (gui is None): confirmation is asked on the
\* command line and no GUI thread runs.
InitCli == Init /\ gui = FALSE

NextCli ==
    \/ Start
    \/ Stop
    \/ LoopExit
    \/ LoopTop
    \/ Hotword
    \/ Record
    \/ Transcribe
    \/ GetPlan
    \/ ValidateStep
    \/ ConfirmCli
    \/ Execute
    \/ DispatchInvoke
    \/ DispatchReturn
    \/ Respond
    \/ StageError

\* The loop thread is scheduled: time.sleep(1) returns and the loop head runs.
SpecCliLive == InitCli /\ [][NextCli]_vars /\ WF_vars(LoopTop)

\* Why Next has no DispatchSkip and no DispatchNoHandler step: the pipeline
\* dispatches approved plans only, so its skip set is empty and every action
\* type passed ALL_ACTION_TYPES, whose members all have a handler.
PipelineDispatchBranches ==
    (d_pc = "loop" /\ d_i < NumActions) =>
        /\ d_i \notin skip_indices
        /\ ActionOf(d_i).type \in Handlers

\* The save_conversation calls of the current utterance.
SavedNow == SelectSeq(saved, LAMBDA r : r.utt = utt)

Dispatched == d_pc # "idle" \/ calls # <<>> \/ p_pc \in {"execute", "dispatching"}

\* C7: when the verdict of a plan has approved = false the dispatcher is never
\* called for that utterance, no handler runs (not even for its safe actions),
\* and the conversation is recorded with success = false.
C7_BlockedNeverDispatched ==
    (validation # NoValidation /\ ~validation.approved) =>
        /\ ~Dispatched
        /\ approved = "unset"
        /\ Len(SavedNow) = 1
        /\ SavedNow[1].plan = plan
        /\ SavedNow[1].success = FALSE

\* C7 witness (scenario C): a plan with a safe action and a write inside the
\* installation directory was validated, found unapproved and recorded.
C7_Witness ==
    /\ validation # NoValidation
    /\ ~validation.approved
    /\ validation.safe_actions # <<>>
    /\ validation.blocked_actions # <<>>
    /\ p_pc = "top"
    /\ Len(SavedNow) = 1
    /\ ~SavedNow[1].success
    /\ calls = <<>>

\* C8: when the verdict has needs_confirmation = true, no handler is invoked
\* before the confirmation interface returned true for that plan; when it
\* returned false, nothing is executed and the conversation is recorded with
\* success = false.
C8_ConfirmationGate ==
    (validation # NoValidation /\ validation.needs_confirmation) =>
        /\ Dispatched =>
              /\ approved = "yes"
              /\ gui => (rc_pc = "done" /\ rc_return)
        /\ approved = "unset" => ~Dispatched
        /\ approved = "no" =>
              /\ ~Dispatched
              /\ p_pc \in {"top", "stopped"}
              /\ Len(SavedNow) = 1
              /\ SavedNow[1].plan = plan
              /\ SavedNow[1].success = FALSE

\* C8 witness (scenario B): the file deletion was classified dangerous, the
\* window's confirmation returned false, and the utterance ended with no
\* handler invoked and a failed record.
C8_Witness ==
    /\ validation # NoValidation
    /\ validation.approved
    /\ validation.dangerous_actions # <<>>
    /\ gui
    /\ rc_pc = "done"
    /\ ~rc_return
    /\ approved = "no"
    /\ calls = <<>>
    /\ Len(SavedNow) = 1
    /\ ~SavedNow[1].success

----------------------------------------------------------------------------
(* Properties of request_confirmation and FallbackProvider.plan *)

\* C9: when the presentation thread supplied no answer within the wait (the
\* wait timed out with no result written), request_confirmation returns false.
C9_TimeoutIsDenial ==
    (rc_pc = "done" /\ rc_timed_out /\ rc_at_timeout = "None") => rc_return = FALSE

BackendCalls(b) == {c \in 1..Len(f_calls) : f_calls[c].backend = b}

----------------------------------------------------------------------------
(* Properties of execute_plan *)

Succeeded(r) == Get(r, "success", FALSE)
IsSkipped(r) == Get(r, "skipped", FALSE)
CallIndices == {calls[c].index : c \in 1..Len(calls)}
\* The indices execute_plan is asked to run: those outside skip_indices.
RunIndices == (0..(NumActions - 1)) \ skip_indices

\* C1: handlers are invoked in strictly increasing action-index order, each at
\* most once, and none is invoked after the first action whose run ended with
\* success=false (a returned failure, a missing success key, an exception or a
\* missing handler); so the executed actions form a prefix of the actions to
\* run: all before some index k succeeded and k failed, or all succeeded.
C1_PrefixExecution ==
    /\ \A a, b \in 1..Len(calls) : a < b => calls[a].index < calls[b].index
    /\ \A a \in 1..Len(calls) : a < Len(calls) => calls[a].outcome = "ok"
    /\ \A n \in 1..Len(results) :
          (~Succeeded(results[n]) /\ ~IsSkipped(results[n]))
             => \A c \in CallIndices : c <= results[n].action_index
    /\ CallIndices \subseteq RunIndices
    /\ d_pc = "done" =>
          \E k \in 0..NumActions :
             /\ \A i \in RunIndices :
                   i < k => /\ Len(results) > i
                            /\ Succeeded(results[i + 1])
             /\ \A c \in CallIndices : c <= k
             /\ k < NumActions =>
                   /\ k \in RunIndices
                   /\ Len(results) > k
                   /\ ~Succeeded(results[k + 1])
                   /\ ~IsSkipped(results[k + 1])

\* C1 witness: a three-action plan run with no skip set whose second handler
\* failed after the first succeeded, the third never invoked.
C1_Witness ==
    /\ d_pc = "done"
    /\ NumActions = 3
    /\ skip_indices = {}
    /\ Len(calls) = 2
    /\ calls[1] = [index |-> 0, outcome |-> "ok"]
    /\ calls[2].index = 1
    /\ calls[2].outcome = "raise"

\* C2: the returned list holds exactly one result per action index, in plan
\* order: length n and the i-th result has action_index = i, whatever the skip
\* set and the handler outcomes (a raising handler included).
C2_OneResultPerIndex ==
    d_pc = "done" =>
        /\ Len(last_results) = NumActions
        /\ \A i \in 0..(NumActions - 1) : last_results[i + 1].action_index = i

\* C3: after the handler of index k returned a dict whose success is false or
\* absent, every index j > k has the entry success=false, skipped=true,
\* message "Skipped (previous action failed)", and no handler ran for j.
C3_SkippedAfterFailure ==
    \A c \in 1..Len(calls) :
        calls[c].outcome \in {"fail", "nosuccess"} =>
            LET k == calls[c].index IN
            /\ Len(results) = NumActions
            /\ ~Succeeded(results[k + 1])
            /\ \A j \in (k + 1)..(NumActions - 1) :
                  /\ results[j + 1].action_index = j
                  /\ results[j + 1].action_type = ActionOf(j).type
                  /\ results[j + 1].success = FALSE
                  /\ results[j + 1].skipped = TRUE
                  /\ results[j + 1].message = "Skipped (previous action failed)"
                  /\ j \notin CallIndices

\* C3 witness (scenario D): three actions, index 1 returns success=false; the
\* result list is [success, failure, skipped].
C3_Witness ==
    /\ d_pc = "done"
    /\ NumActions = 3
    /\ skip_indices = {}
    /\ calls = <<[index |-> 0, outcome |-> "ok"], [index |-> 1, outcome |-> "fail"]>>
    /\ Len(last_results) = 3
    /\ Succeeded(last_results[1])
    /\ ~Succeeded(last_results[2]) /\ ~IsSkipped(last_results[2])
    /\ IsSkipped(last_results[3])

----------------------------------------------------------------------------
(* validate_action_plan on drawn inputs *)

\* Values of "type": two allowed types (one of them dangerous), a type that
\* has a handler but is not allowed, an unknown type, and a JSON array.
RawTypes == {"wait", "file_delete", "system_shutdown", "format_disk", Unhashable}

\* Values of "parameters": a dict without and with a message, and a non-dict.
RawParameters == {JDict(<<>>), JDict([message |-> "m"]), NotDict}

\* Elements of "actions": a non-dict, a dict without type, and dicts with a
\* type, without and with parameters.
RawActions ==
    {NotDict, JDict(<<>>)}
        \cup {JDict([type |-> t]) : t \in RawTypes}
        \cup {JDict([type |-> t, parameters |-> q]) : t \in RawTypes, q \in RawParameters}

\* Values of "actions": lists of up to MaxRawActions elements, and a non-list.
RawLists ==
    {NotList} \cup UNION {{JList(l) : l \in [1..n -> RawActions]} : n \in 0..MaxRawActions}

RawTaskTypes == valid_task_types \cup {"bogus", Unhashable}

\* The dict with the keys ks, of task_type t, actions a and
\* requires_confirmation r.
RawPlan(ks, t, a, r) ==
    JDict([k \in ks |->
             CASE k = "task_type" -> [s |-> t, l |-> NotList, b |-> FALSE]
               [] k = "actions" -> [s |-> "", l |-> a, b |-> FALSE]
               [] OTHER -> [s |-> "", l |-> NotList, b |-> r]])

\* The value a key of a drawn dict holds.
Untag(p) ==
    JDict([k \in DOMAIN p.fields |->
             CASE k = "task_type" -> p.fields[k].s
               [] k = "actions" -> p.fields[k].l
               [] OTHER -> p.fields[k].b])

InitSchema ==
    /\ PipelineIdle
    /\ EnvFixed
    /\ SafetyIdle
    /\ DispatchIdle
    /\ FallbackCreated /\ f_primary = "local"
    /\ ConfirmCreated
    /\ plan = NoPlan
    /\ SanitizeIdle
    /\ ThreadsIdle
    /\ ProviderIdle
    /\ \/ sc_in = NotDict
       \/ \E ks \in SUBSET {"task_type", "actions", "requires_confirmation"} :
             \E t \in RawTaskTypes, a \in RawLists, r \in BOOLEAN :
                sc_in = Untag(RawPlan(ks, t, a, r))
    /\ sc_out = NotCalled
    /\ sc_ok = "none"

\* One call of validate_action_plan whose JSON text parsed to sc_in.
ValidateActionPlanCall ==
    /\ sc_out = NotCalled
    /\ sc_out' = ValidateActionPlan(sc_in)
    /\ UNCHANGED <<plan, dvars, envvars, svars, fvars, cvars, pvars, snvars, tvars, prvars, sc_in,
                   sc_ok>>

\* validate_plan_schema on the value validate_action_plan was given.
ValidatePlanSchemaCall ==
    /\ sc_out # NotCalled
    /\ sc_ok = "none"
    /\ sc_ok' = validate_plan_schema(sc_in)
    /\ UNCHANGED <<plan, dvars, envvars, svars, fvars, cvars, pvars, snvars, tvars, prvars, sc_in,
                   sc_out>>

NextSchema ==
    \/ ValidateActionPlanCall
    \/ ValidatePlanSchemaCall

SpecSchema == InitSchema /\ [][NextSchema]_vars

----------------------------------------------------------------------------
(* Properties of validate_action_plan *)

\* validate_action_plan returned a plan.
Returned == sc_out \notin {NotCalled, NoPlan, Raised}

\* The schema of a plan: actions a non-empty list of dicts with an allowed
\* type and a dict of parameters, a valid task_type, requires_confirmation.
SatisfiesSchema(p) ==
    /\ p.isdict
    /\ {"task_type", "actions", "requires_confirmation"} \subseteq DOMAIN p.fields
    /\ p.fields["task_type"] \in valid_task_types
    /\ p.fields["actions"].islist
    /\ Len(p.fields["actions"].items) >= 1
    /\ \A n \in 1..Len(p.fields["actions"].items) :
          LET a == p.fields["actions"].items[n] IN
          /\ a.isdict
          /\ {"type", "parameters"} \subseteq DOMAIN a.fields
          /\ a.fields["type"] \in ALL_ACTION_TYPES
          /\ a.fields["parameters"].isdict

\* The input has a list of actions, one of which is a dict with a type
\* outside the allowed set.
HasDisallowedType(p) ==
    /\ p.isdict
    /\ "actions" \in DOMAIN p.fields
    /\ p.fields["actions"].islist
    /\ \E n \in 1..Len(p.fields["actions"].items) :
          LET a == p.fields["actions"].items[n] IN
          /\ a.isdict
          /\ "type" \in DOMAIN a.fields
          /\ a.fields["type"] \notin ALL_ACTION_TYPES

\* C11: every plan validate_action_plan returns satisfies the schema, and an
\* input with an action whose type is outside the allowed set is answered
\* with None.
C11_ReturnedPlanSatisfiesSchema ==
    /\ Returned => SatisfiesSchema(sc_out)
    /\ (sc_out # NotCalled /\ HasDisallowedType(sc_in)) => sc_out = NoPlan

\* The input lacks task_type and is valid otherwise: a non-empty list of
\* dicts with an allowed type and, where present, a dict of parameters.
MissingTaskTypeOnly(p) ==
    /\ p.isdict
    /\ "task_type" \notin DOMAIN p.fields
    /\ "actions" \in DOMAIN p.fields
    /\ p.fields["actions"].islist
    /\ Len(p.fields["actions"].items) >= 1
    /\ \A n \in 1..Len(p.fields["actions"].items) :
          LET a == p.fields["actions"].items[n] IN
          /\ a.isdict
          /\ "type" \in DOMAIN a.fields
          /\ a.fields["type"] \in ALL_ACTION_TYPES
          /\ "parameters" \in DOMAIN a.fields => a.fields["parameters"].isdict

\* C12: an otherwise valid plan without task_type is returned, with
\* task_type single_step for one action and multi_step for more than one.
C12_MissingTaskTypeAssigned ==
    (sc_out # NotCalled /\ MissingTaskTypeOnly(sc_in)) =>
        /\ Returned
        /\ sc_out.fields["task_type"] =
             IF Len(sc_in.fields["actions"].items) = 1 THEN "single_step" ELSE "multi_step"

C12_Witness ==
    /\ MissingTaskTypeOnly(sc_in)
    /\ Len(sc_in.fields["actions"].items) > 1
    /\ Returned
    /\ sc_out.fields["task_type"] = "multi_step"

----------------------------------------------------------------------------
(* sanitize_plan on drawn plans *)

SanitizePaths == {"", "/", "C:\\", "C:", "C:\\Users\\notes.txt"}

SanitizePackageIds ==
    {EmptyStr, <<"g", "i", "t">>, <<"g", ";", "r">>, <<"&", "|">>, <<"a", ">", "backquote">>}

SanitizeDelays == {0, 60, 3600, 3601, 7200}

\* Actions of schema-valid plans: each sanitized type with and without the
\* parameter the sanitizer looks at, and types it leaves alone.
SanitizeActions ==
    {[type |-> t, parameters |-> NoParams]
        : t \in {"file_delete", "install_software", "system_shutdown", "open_app"}}
    \cup {[type |-> "file_delete", parameters |-> [path |-> x]] : x \in SanitizePaths}
    \cup {[type |-> t, parameters |-> [package_id |-> x]]
            : t \in {"install_software", "open_app"}, x \in SanitizePackageIds}
    \cup {[type |-> t, parameters |-> [delay |-> x]]
            : t \in {"system_shutdown", "system_restart", "system_sleep"},
              x \in SanitizeDelays}

SanitizePlans ==
    UNION {[task_type : {"multi_step"}, requires_confirmation : {FALSE},
            actions : [1..n -> SanitizeActions]] : n \in 1..MaxRawActions}

InitSanitize ==
    /\ PipelineIdle
    /\ EnvFixed
    /\ SafetyIdle
    /\ DispatchIdle
    /\ FallbackCreated /\ f_primary = "local"
    /\ ConfirmCreated
    /\ plan = NoPlan
    /\ SchemaIdle
    /\ ThreadsIdle
    /\ ProviderIdle
    /\ sn_in \in SanitizePlans
    /\ sn_once = NoPlan
    /\ sn_twice = NoPlan

\* once = validator.sanitize_plan(plan)
SanitizeFirst ==
    /\ sn_once = NoPlan
    /\ sn_once' = sanitize_plan(sn_in)
    /\ UNCHANGED <<plan, dvars, envvars, svars, fvars, cvars, pvars, scvars, tvars, prvars, sn_in, sn_twice>>

\* twice = validator.sanitize_plan(once)
SanitizeSecond ==
    /\ sn_once # NoPlan
    /\ sn_twice = NoPlan
    /\ sn_twice' = sanitize_plan(sn_once)
    /\ UNCHANGED <<plan, dvars, envvars, svars, fvars, cvars, pvars, scvars, tvars, prvars, sn_in, sn_once>>

NextSanitize ==
    \/ SanitizeFirst
    \/ SanitizeSecond

SpecSanitize == InitSanitize /\ [][NextSanitize]_vars

\* C13: sanitize_plan is idempotent: sanitizing a sanitized plan returns a
\* plan equal to it.
C13_SanitizeIdempotent ==
    sn_twice # NoPlan => sn_twice = sn_once

\* Both calls were made on a plan that the first call changed in each of the
\* three ways.
C13_Witness ==
    /\ sn_twice # NoPlan
    /\ \E n \in 1..Len(sn_in.actions) :
          /\ sn_in.actions[n].type = "install_software"
          /\ sn_once.actions[n].parameters # sn_in.actions[n].parameters
    /\ \E n \in 1..Len(sn_in.actions) :
          /\ sn_in.actions[n].type = "file_delete"
          /\ sn_once.actions[n].parameters # sn_in.actions[n].parameters

----------------------------------------------------------------------------
(* Properties of the pipeline: planning, persistence, errors *)

\* A rule of SIMPLE_COMMAND_RULES matches the command of this utterance.
MatchesRule == command # <<>> /\ parse_simple_command(command) # NoPlan

OpenNotepad == <<"open", "notepad">>

\* C14: for a command that a fast-path rule matches, the generator is not
\* called; for "open notepad" the plan is the single_step plan of the rule,
\* needs_confirmation is false and the open_app handler is invoked exactly once.
C14_FastPathBypassesGenerator ==
    /\ MatchesRule => ai_calls = <<>>
    /\ (command = OpenNotepad /\ plan # NoPlan) =>
          /\ plan.task_type = "single_step"
          /\ plan.actions = parse_simple_command(OpenNotepad).actions
    /\ (command = OpenNotepad /\ HasVerdict) => ~validation.needs_confirmation
    /\ (command = OpenNotepad /\ d_pc = "done") =>
          /\ Len(calls) = 1
          /\ ActionOf(calls[1].index).type = "open_app"

\* C15: an utterance with a command text has exactly one saved record when
\* the loop is back at its head, and never more than one.
C15_SavedOncePerUtterance ==
    /\ Len(SavedNow) <= 1
    /\ (p_pc \in {"top", "stopped"} /\ command # <<>>) => Len(SavedNow) = 1

----------------------------------------------------------------------------
(* Start and Stop clicks against Orchestrator.start, stop and _main_loop *)

\* Positions of a thread that is inside `while self._running`: at the loop
\* test, waiting for the wake word, generating a plan, executing it.
LoopPositions == {"test", "listen", "plan", "execute"}

\* The variables of the single-thread pipeline that the threads leave alone.
PipelineRest ==
    <<plan, dvars, envvars, scvars, snvars, prvars, svars, fvars, cvars, p_pc, status, gui,
      approved, saved, utt, command, ai_calls, raised>>

\* _on_start_clicked: the buttons swap and a new thread runs on_start.
StartClicked ==
    /\ start_enabled
    /\ Len(threads) < MaxStarts
    /\ start_enabled' = FALSE
    /\ threads' = Append(threads, "start")
    /\ UNCHANGED <<PipelineRest, running>>

\* _on_stop_clicked: the buttons swap and stop() clears _running.
StopClicked ==
    /\ ~start_enabled
    /\ start_enabled' = TRUE
    /\ running' = FALSE
    /\ UNCHANGED <<PipelineRest, threads>>

\* start(): `if self._running: return`
AfterStartGuard(r) == IF r THEN "returned" ELSE "set"

\* Thread t evaluates the guard of start().
ThreadStartGuard(t) ==
    /\ threads[t] = "start"
    /\ threads' = [threads EXCEPT ![t] = AfterStartGuard(running)]
    /\ UNCHANGED <<PipelineRest, running, start_enabled>>

\* Thread t: self._running = True, then _main_loop() is entered.
ThreadSetRunning(t) ==
    /\ threads[t] = "set"
    /\ running' = TRUE
    /\ threads' = [threads EXCEPT ![t] = "test"]
    /\ UNCHANGED <<PipelineRest, start_enabled>>

\* Thread t: `while self._running`
ThreadLoopTest(t) ==
    /\ threads[t] = "test"
    /\ threads' = [threads EXCEPT ![t] = IF running THEN "listen" ELSE "exited"]
    /\ UNCHANGED <<PipelineRest, running, start_enabled>>

\* Thread t: one of the `continue` branches before a command was obtained,
\* or the command is obtained and self.ai.plan is called.
ThreadListen(t) ==
    /\ threads[t] = "listen"
    /\ \E next \in {"test", "plan"} : threads' = [threads EXCEPT ![t] = next]
    /\ UNCHANGED <<PipelineRest, running, start_enabled>>

\* Thread t: the plan was generated; the utterance ends there (None, clarify,
\* blocked, denied, an exception) or the plan is executed.
ThreadPlan(t) ==
    /\ threads[t] = "plan"
    /\ \E next \in {"test", "execute"} : threads' = [threads EXCEPT ![t] = next]
    /\ UNCHANGED <<PipelineRest, running, start_enabled>>

\* Thread t: execute_plan returned, the conversation is saved.
ThreadExecute(t) ==
    /\ threads[t] = "execute"
    /\ threads' = [threads EXCEPT ![t] = "test"]
    /\ UNCHANGED <<PipelineRest, running, start_enabled>>

InitThreads ==
    /\ PipelineIdle
    /\ EnvFixed
    /\ SafetyIdle
    /\ DispatchIdle
    /\ FallbackCreated /\ f_primary = "local"
    /\ ConfirmCreated
    /\ plan = NoPlan
    /\ SchemaIdle
    /\ SanitizeIdle
    /\ ThreadsIdle
    /\ ProviderIdle

NextThreads ==
    \/ StartClicked
    \/ StopClicked
    \/ \E t \in 1..Len(threads) :
          \/ ThreadStartGuard(t)
          \/ ThreadSetRunning(t)
          \/ ThreadLoopTest(t)
          \/ ThreadListen(t)
          \/ ThreadPlan(t)
          \/ ThreadExecute(t)

SpecThreads == InitThreads /\ [][NextThreads]_vars

\* Threads that are inside the loop, and threads generating or executing.
InLoop == {t \in 1..Len(threads) : threads[t] \in LoopPositions}
Working == {t \in 1..Len(threads) : threads[t] \in {"plan", "execute"}}

\* C17: under every interleaving of Start and Stop clicks at most one thread
\* is inside the pipeline loop, so no two plans are generated or executed at
\* the same time.
C17_SingleLoop ==
    /\ Cardinality(InLoop) <= 1
    /\ Cardinality(Working) <= 1

----------------------------------------------------------------------------
(* One plan() call of a provider *)

InitProvider ==
    /\ PipelineIdle
    /\ EnvFixed
    /\ SafetyIdle
    /\ DispatchIdle
    /\ FallbackCreated /\ f_primary = "local"
    /\ ConfirmCreated
    /\ plan = NoPlan
    /\ SchemaIdle
    /\ SanitizeIdle
    /\ ThreadsIdle
    /\ pr_kind \in {"ollama", "openrouter"}
    /\ pr_attempt = 1
    /\ pr_pc = "attempt"
    /\ pr_inflight = 0
    /\ pr_log = <<>>
    /\ pr_result = NoPlan

NextProvider ==
    \/ ProviderPost
    \/ ProviderResponse
    \/ ProviderGiveUp

SpecProvider == InitProvider /\ [][NextProvider]_vars

\* Requests issued so far by this call.
Requests == Len(pr_log) + pr_inflight

\* C18: one plan() call issues at most 3 requests, one at a time; a valid
\* plan ends the call at once and is returned; every other outcome is a
\* failed attempt, and None is returned exactly when the third attempt failed.
C18_BoundedSequentialAttempts ==
    /\ Requests <= 3
    /\ pr_inflight <= 1
    /\ \A n \in 1..Len(pr_log) :
          /\ pr_log[n].attempt = n
          /\ pr_log[n].outcome = "valid" =>
                /\ n = Len(pr_log)
                /\ pr_inflight = 0
                /\ pr_pc = "done"
                /\ pr_result # NoPlan
    /\ pr_pc = "done" =>
          \/ pr_log[Len(pr_log)].outcome = "valid" /\ pr_result # NoPlan
          \/ /\ Len(pr_log) = 3
             /\ \A n \in 1..3 : pr_log[n].outcome # "valid"
             /\ pr_result = NoPlan

\* A call that failed three times, by an empty response, a timeout and an
\* invalid plan among them.
C18_Witness ==
    /\ pr_pc = "done"
    /\ pr_result = NoPlan
    /\ Len(pr_log) = 3
    /\ {"empty", "timeout", "invalid"} = {pr_log[n].outcome : n \in 1..3}

----------------------------------------------------------------------------
(* Properties of execute_plan: failures that are not returned, skipped indices *)

\* The loop reached index i and ran it: its entry exists and is not a skipped one.
Ran(i) == Len(results) > i /\ ~IsSkipped(results[i + 1])

\* The handler of index i raised.
RaisedAt(i) == \E c \in 1..Len(calls) : calls[c] = [index |-> i, outcome |-> "raise"]

\* C19: an action with no registered handler and an action whose handler
\* raises both get a result with success=false that carries action_index,
\* action_type and the elapsed time; no handler runs after it and the loop is
\* left, execute_plan returning the list.
C19_FailureWithoutRaise ==
    /\ \A i \in RunIndices :
          ((ActionOf(i).type \notin Handlers /\ Ran(i)) \/ RaisedAt(i)) =>
              /\ Len(results) > i
              /\ {"success", "action_index", "action_type", "elapsed_seconds"}
                    \subseteq DOMAIN results[i + 1]
              /\ results[i + 1].success = FALSE
              /\ results[i + 1].action_index = i
              /\ results[i + 1].action_type = ActionOf(i).type
              /\ \A c \in CallIndices : c <= i
              /\ d_pc \in {"break", "done"}
    /\ d_pc = "done" => last_results = results

\* An action without a handler was reached after a success, and a handler raised
\* in another run: here the first.
C19_Witness ==
    /\ d_pc = "done"
    /\ NumActions >= 2
    /\ calls = <<[index |-> 0, outcome |-> "ok"]>>
    /\ ActionOf(1).type \notin Handlers
    /\ Ran(1)
    /\ last_results[2].success = FALSE

\* C20: every index of skip_indices gets a result with skipped=true and no
\* handler call, and a skipped index does not stop the run: an index outside
\* skip_indices whose predecessors outside skip_indices all succeeded is run.
C20_SkippedIndices ==
    d_pc = "done" =>
        /\ \A i \in skip_indices :
              /\ i \notin CallIndices
              /\ \E n \in 1..Len(last_results) :
                    /\ last_results[n].action_index = i
                    /\ IsSkipped(last_results[n])
        /\ \A j \in RunIndices :
              (\A k \in RunIndices : k < j => Ran(k) /\ Succeeded(results[k + 1]))
                 => Ran(j)

----------------------------------------------------------------------------
(* Properties of the safety validator: the verdict's lists, precedence of checks *)

\* C21: the verdict's needs_confirmation equals the plan's
\* requires_confirmation or-ed with "dangerous_actions is not empty".
C21_NeedsConfirmationIsDisjunction ==
    HasVerdict =>
        validation.needs_confirmation =
            (plan.requires_confirmation \/ validation.dangerous_actions # <<>>)

\* A plan of safe actions only that asks for confirmation itself, validated
\* with safe mode off: the verdict asks for confirmation.
C21_Witness ==
    /\ HasVerdict
    /\ plan.requires_confirmation
    /\ validation.dangerous_actions = <<>>
    /\ validation.blocked_actions = <<>>
    /\ Len(validation.safe_actions) >= 2
    /\ ~safe_mode
    /\ validation.needs_confirmation

\* C22: an action whose url parameter _check_url_safety blocks (a scheme
\* other than http and https, or a denylisted pattern) is classified
\* "blocked", whatever its other parameters are.
C22_BlockedUrlTakesPrecedence ==
    (/\ classification # "none"
     /\ "url" \in DOMAIN action_in.parameters
     /\ CheckUrlSafety(action_in.parameters["url"]) = "blocked")
        => classification = "blocked"

DestructiveTypes ==
    {"system_shutdown", "system_restart", "install_software", "file_delete"}

\* C23: an action of a destructive type whose parameters carry no protected
\* path and no disallowed URL is classified "dangerous".
C23_DestructiveIsDangerous ==
    (/\ classification # "none"
     /\ action_in.type \in DestructiveTypes
     /\ \A k \in PathParams(action_in) :
           /\ action_in.parameters[k].isstr
           /\ ~InsideProtected(Resolve(action_in.parameters[k]))
     /\ "url" \in DOMAIN action_in.parameters
           => CheckUrlSafety(action_in.parameters["url"]) # "blocked")
        => classification = "dangerous"

Increasing(seq) == \A a, b \in 1..Len(seq) : a < b => seq[a] < seq[b]

\* C24: blocked_actions, dangerous_actions and safe_actions partition the
\* indices 0..n-1, each list increasing, and reasons has exactly one entry for
\* every blocked and every dangerous index and none for a safe one.
C24_VerdictPartition ==
    HasVerdict =>
        LET B == ToSet(validation.blocked_actions)
            D == ToSet(validation.dangerous_actions)
            S == ToSet(validation.safe_actions)
            R == validation.reasons
        IN /\ B \cup D \cup S = 0..(Len(plan.actions) - 1)
           /\ B \cap D = {} /\ B \cap S = {} /\ D \cap S = {}
           /\ Increasing(validation.blocked_actions)
           /\ Increasing(validation.dangerous_actions)
           /\ Increasing(validation.safe_actions)
           /\ Len(R) = Cardinality(B) + Cardinality(D)
           /\ \A i \in B : \E k \in 1..Len(R) : R[k] = [index |-> i, kind |-> "BLOCKED"]
           /\ \A i \in D : \E k \in 1..Len(R) : R[k] = [index |-> i, kind |-> "confirm"]
           /\ \A k \in 1..Len(R) : R[k].index \notin S

\* A verdict on a three-action plan with one blocked, one dangerous and one
\* safe action, the safe one first.
C24_Witness ==
    /\ HasVerdict
    /\ Len(validation.blocked_actions) = 1
    /\ Len(validation.dangerous_actions) = 1
    /\ validation.safe_actions = <<0>>
    /\ Len(validation.reasons) = 2

----------------------------------------------------------------------------
(* Properties of the pipeline: plans that end the utterance, the recorded
   outcome, the status sequence, stop() during dispatch *)

\* C25: a plan with task_type clarify ends the utterance: validate_plan is
\* not called, no confirmation is asked, the dispatcher is not called, and one
\* record ("Clarification requested") is saved.
C25_ClarifyEndsUtterance ==
    plan.task_type = "clarify" =>
        /\ p_pc \in {"top", "stopped"}
        /\ validation = NoValidation
        /\ approved = "unset"
        /\ ~Dispatched
        /\ SavedNow = <<[utt |-> utt, plan |-> plan,
                         result |-> "Clarification requested", success |-> TRUE]>>

C25_Witness ==
    /\ plan.task_type = "clarify"
    /\ ai_calls # <<>>
    /\ p_pc = "top"
    /\ Len(SavedNow) = 1

\* self.ai.plan was called in this iteration and returned None.
NonePlan == ai_calls # <<>> /\ plan = NoPlan

\* C26: when self.ai.plan returns None nothing is validated, confirmed or
\* executed, the conversation is recorded with a null plan and success=false,
\* the error state is not entered, and the loop goes on at its head, whose
\* first statement sets the status idle.
C26_NonePlanRecordedAsFailure ==
    /\ [](NonePlan =>
            /\ p_pc \in {"top", "stopped"}
            /\ validation = NoValidation
            /\ approved = "unset"
            /\ ~Dispatched
            /\ SavedNow = <<[utt |-> utt, plan |-> NoPlan,
                             result |-> "Plan generation failed", success |-> FALSE]>>
            /\ status # "error"
            /\ ~raised)
    /\ [][(NonePlan /\ p_pc = "top" /\ p_pc' # "top") =>
             \/ p_pc' = "hotword" /\ status' = "idle"
             \/ p_pc' = "stopped" /\ ~running]_vars

C26_Witness ==
    /\ NonePlan
    /\ p_pc = "top"
    /\ running
    /\ status = "processing"
    /\ Len(SavedNow) = 1

\* execute_plan returned and the conversation was saved.
Responded == d_pc = "done" /\ p_pc # "dispatching"

\* C27: after dispatch the conversation is recorded with success=true iff
\* every result of the returned list has success=true, and the recorded list
\* holds the successful result of every handler that returned one.
C27_OutcomeIsConjunction ==
    Responded =>
        /\ Len(SavedNow) = 1
        /\ SavedNow[1].result = last_results
        /\ SavedNow[1].success <=>
              \A n \in 1..Len(last_results) :
                  /\ "success" \in DOMAIN last_results[n]
                  /\ last_results[n].success
        /\ \A c \in 1..Len(calls) :
              calls[c].outcome = "ok" =>
                  \E n \in 1..Len(SavedNow[1].result) :
                      /\ SavedNow[1].result[n].action_index = calls[c].index
                      /\ SavedNow[1].result[n].success

\* The first action succeeded, the second failed: the record is a failure and
\* keeps the first result.
C27_Witness ==
    /\ Responded
    /\ Len(calls) = 2
    /\ calls[1].outcome = "ok"
    /\ calls[2].outcome = "fail"
    /\ Len(SavedNow) = 1
    /\ ~SavedNow[1].success
    /\ SavedNow[1].result[1].success

\* Status changes of the sequence idle, listening, processing, executing, the
\* end of an utterance (idle) and the error state.
StatusSteps ==
    {<<"idle", "listening">>, <<"listening", "processing">>,
     <<"processing", "executing">>, <<"listening", "idle">>,
     <<"processing", "idle">>, <<"executing", "idle">>, <<"error", "idle">>}
    \cup {<<s, "error">> : s \in {"idle", "listening", "processing", "executing"}}

\* C28: the status follows idle, listening, processing, executing in that
\* order; executing is entered only from processing with the plan approved
\* and, when needed, confirmed; and when the loop is left the status is idle
\* or error: every utterance ends in idle or error.
C28_StatusSequence ==
    /\ [][status' # status => <<status, status'>> \in StatusSteps]_vars
    /\ [][(status' = "executing" /\ status # "executing") =>
             /\ validation # NoValidation
             /\ validation.approved
             /\ validation.needs_confirmation => approved = "yes"]_vars
    /\ [](p_pc = "stopped" => status \in {"idle", "error"})

\* C29: once dispatch has begun, stop() does not cancel it: the loop is not
\* left from inside the dispatch, the remaining actions run in order up to the
\* first failure, and the record is saved; with _running cleared the loop test
\* only leaves the loop.
C29_StopDoesNotCancel ==
    /\ [][p_pc = "dispatching" => p_pc' \in {"dispatching", "top"}]_vars
    /\ [][(p_pc = "dispatching" /\ p_pc' = "top") =>
             /\ d_pc = "done"
             /\ Len(saved') = 1
             /\ saved'[1].result = last_results]_vars
    /\ [](d_pc = "done" =>
            \A j \in 0..(NumActions - 1) :
                (\A k \in 0..(j - 1) : Ran(k) /\ Succeeded(results[k + 1])) => Ran(j))
    /\ [](Responded => Len(SavedNow) = 1)
    /\ [][(~running /\ p_pc = "top") => p_pc' \in {"top", "stopped"}]_vars

\* stop() was called, and the plan's two actions were both run and recorded.
C29_Witness ==
    /\ ~running
    /\ p_pc = "top"
    /\ Responded
    /\ status = "executing"
    /\ NumActions = 2
    /\ Len(calls) = 2
    /\ Len(SavedNow) = 1
    /\ SavedNow[1].success

----------------------------------------------------------------------------
(* The confirmation gate without a window *)

\* The steps the pipeline thread takes by itself. The answer typed at the
\* input() prompt (ConfirmCli), an exception (StageError) and the calls of
\* start() and stop() are the environment's.
LoopSteps ==
    \/ LoopExit
    \/ LoopTop
    \/ Hotword
    \/ Record
    \/ Transcribe
    \/ GetPlan
    \/ ValidateStep
    \/ Execute
    \/ DispatchInvoke
    \/ DispatchReturn
    \/ Respond

SpecCliGate == InitCli /\ [][NextCli]_vars /\ WF_vars(LoopSteps)

\* The pipeline thread is inside the confirmation gate.
AtGate == p_pc \in {"confirm", "confirming"}

\* C30: the confirmation gate always resolves: a pipeline thread that waits
\* for a confirmation eventually leaves the gate, answered or not.
C30_GateResolves == AtGate ~> ~AtGate

----------------------------------------------------------------------------
(* Properties of FallbackProvider: the primary stays the primary *)

\* C31: whatever the primary failures were, the backend called first is the
\* one given as primary at construction: primary and secondary are never
\* reassigned, and the counter (one more on a primary None, 0 on a primary
\* plan) changes nothing else.
C31_PrimaryNeverSwapped ==
    /\ [][f_primary' = f_primary /\ f_secondary' = f_secondary]_vars
    /\ [](f_calls # <<>> => f_calls[1].backend = f_primary)
    /\ [][(f_pc = "primary" /\ f_pc' # "primary") =>
             failures' = IF f_calls'[1].result = NoPlan THEN failures + 1 ELSE 0]_vars

\* The primary failed in more consecutive calls than the threshold, the last
\* of them included, and was still the backend called first.
C31_Witness ==
    /\ failures > failure_threshold + 1
    /\ f_calls # <<>>
    /\ f_calls[1] = [backend |-> f_primary, result |-> NoPlan]

----------------------------------------------------------------------------
(* Properties of the providers' plan(): the delay between attempts *)

\* C32: within one plan() call a delay follows every failed attempt that is
\* followed by another attempt, whatever made it fail, and no delay follows
\* the last attempt.
C32_DelayBetweenAttempts ==
    \A n \in 1..Len(pr_log) :
        pr_log[n].outcome # "valid" =>
            /\ n < max_retries => pr_log[n].delay > 0
            /\ n = max_retries => pr_log[n].delay = 0

----------------------------------------------------------------------------
(* Properties of validate_action_plan: clarification plans, task_type and the
   action count, agreement with validate_plan_schema *)

ReturnedActions == sc_out.fields["actions"].items

\* C33: a plan with task_type clarify that validate_action_plan returns has
\* exactly one action, of type wait, with a message parameter.
C33_ClarifyPlanShape ==
    (Returned /\ sc_out.fields["task_type"] = "clarify") =>
        /\ Len(ReturnedActions) = 1
        /\ ReturnedActions[1].fields["type"] = "wait"
        /\ "message" \in DOMAIN ReturnedActions[1].fields["parameters"].fields

\* C34: a returned plan whose task_type is not clarify has single_step
\* exactly when it has one action and multi_step exactly when it has more.
C34_TaskTypeMatchesCount ==
    (Returned /\ sc_out.fields["task_type"] # "clarify") =>
        sc_out.fields["task_type"] = TaskTypeFor(Len(ReturnedActions))

\* The input is a dict with a valid task_type and a list of actions that are
\* dicts with a dict of parameters.
WellFormedInput(p) ==
    /\ p.isdict
    /\ "task_type" \in DOMAIN p.fields
    /\ p.fields["task_type"] \in valid_task_types
    /\ "actions" \in DOMAIN p.fields
    /\ p.fields["actions"].islist
    /\ \A n \in 1..Len(p.fields["actions"].items) :
          LET a == p.fields["actions"].items[n] IN
          /\ a.isdict
          /\ "parameters" \in DOMAIN a.fields
          /\ a.fields["parameters"].isdict

\* C35: on such an input validate_plan_schema accepts exactly when
\* validate_action_plan returns a plan: the two reject the same action types.
C35_SchemaChecksAgree ==
    (sc_ok # "none" /\ WellFormedInput(sc_in)) => (sc_ok = "accepted" <=> Returned)

----------------------------------------------------------------------------
(* Properties of validate_plan and request_confirmation: safe mode, answers of
   earlier dialogs *)

\* C36: the verdict of validate_plan is the same with safe_mode true and
\* false, so with safe mode off a plan with a dangerous action still asks for
\* confirmation.
C36_SafeModeChangesNothing ==
    HasVerdict =>
        /\ validation = ValidatePlan(plan, TRUE)
        /\ validation = ValidatePlan(plan, FALSE)
        /\ (\E n \in 1..Len(plan.actions) : ClassifyAction(plan.actions[n]) = "dangerous")
              => validation.needs_confirmation

\* Two dangerous actions in a plan that does not ask for confirmation itself,
\* validated with safe mode off.
C36_Witness ==
    /\ HasVerdict
    /\ ~safe_mode
    /\ ~plan.requires_confirmation
    /\ Len(validation.dangerous_actions) >= 2
    /\ validation.blocked_actions = <<>>
    /\ validation.needs_confirmation

\* The dialog of the current request was shown and answered: its signal is
\* not queued any more and no dialog of it is still open.
OwnDialogAnswered ==
    /\ \A n \in 1..Len(signals) : signals[n] # rc_req
    /\ \A n \in 1..Len(dialogs) :
          dialogs[n].req = rc_req => dialogs[n].stage = "answered"

\* C37: a true returned by request_confirmation comes from the answer to the
\* dialog of that same request: when the call returned true its own dialog
\* was answered, so the Yes of an earlier request's dialog did not decide it.
C37_TrueFromOwnDialog ==
    (rc_pc = "done" /\ rc_return) => OwnDialogAnswered

----------------------------------------------------------------------------
(* The plans of the rule table against the safety validator *)

\* Longest command (in words) handed to parse_simple_command.
MaxCommandLen == 2

RuleWords ==
    {"open", "notepad", "chrome", "lock", "sleep", "shutdown", "restart", "mute",
     "volume", "30", "wifi", "bluetooth", "on", "toggle"}

InitRules ==
    /\ EnvFixed
    /\ SafetyIdle
    /\ DispatchIdle
    /\ FallbackCreated /\ f_primary = "local"
    /\ ConfirmCreated
    /\ AiIdle
    /\ plan = NoPlan
    /\ p_pc = "stopped"
    /\ status = "idle"
    /\ running = FALSE
    /\ gui = TRUE
    /\ approved = "unset"
    /\ saved = <<>>
    /\ utt = 0
    /\ \E n \in 1..MaxCommandLen : \E w \in [1..n -> RuleWords] : command = w
    /\ ai_calls = <<>>
    /\ raised = FALSE

\* plan = parse_simple_command(command), for a command a rule matches.
RuleParse ==
    /\ plan = NoPlan
    /\ parse_simple_command(command) # NoPlan
    /\ plan' = parse_simple_command(command)
    /\ UNCHANGED <<dvars, nondvars>>

\* validation = self.safety.validate_plan(plan) on the plan of the rule.
RuleValidate ==
    /\ plan # NoPlan
    /\ validation = NoValidation
    /\ validation' = ValidatePlan(plan, safe_mode)
    /\ UNCHANGED <<plan, dvars, envvars, aivars, fvars, cvars, pvars, safe_mode, action_in,
                   classification>>

NextRules ==
    \/ RuleParse
    \/ RuleValidate

SpecRules == InitRules /\ [][NextRules]_vars

\* C38: every action type of a plan of the rule table, and every type with a
\* registered handler, is in the allowed set of validate_action_plan and
\* classify_action, so the plan of a matched command is not blocked.
C38_VocabularyConsistent ==
    HasVerdict =>
        /\ \A n \in 1..Len(plan.actions) : plan.actions[n].type \in ALL_ACTION_TYPES
        /\ validation.blocked_actions = <<>>
        /\ validation.approved
        /\ Handlers \subseteq ALL_ACTION_TYPES

====
